---- MODULE Spec2Model ----
(***************************************************************************)
(* terminal_gfx: a ray-marched scene rendered into a framebuffer, post-    *)
(* processed, edge-detected and composed into a double-buffered terminal   *)
(* cell grid.  The module models the framebuffer, the terminal buffer, the *)
(* tile-parallel scene renderer and the main loop.                         *)
(*                                                                         *)
(* Indices are 0-based in the program and 1-based in the sequences here:   *)
(* program index i is element i + 1.                                       *)
(***************************************************************************)
EXTENDS Integers, Sequences, FiniteSets, TLC

(***************************************************************************)
(* Program constants.                                                      *)
(***************************************************************************)
CHUNK_SIZE == 8
U8_MAX == 255
PALETTE_SIZE == 216
POSTERIZE_LEVELS == 32
MANTISSA_BITS == 23

(***************************************************************************)
(* Bounds of the model.                                                    *)
(***************************************************************************)
MaxFbW == 3
MaxFbH == 3
MaxFbOps == 2

Pow2(n) == 2 ^ n
Min2(a, b) == IF a <= b THEN a ELSE b
Max2(a, b) == IF a >= b THEN a ELSE b
Clamp(v, lo, hi) == Max2(lo, Min2(v, hi))

(***************************************************************************)
(* pixel.rs: four 8-bit channels.                                          *)
(***************************************************************************)
Pixel(r, g, b, a) == [r |-> r, g |-> g, b |-> b, a |-> a]
to_rgb(p) == <<p.r, p.g, p.b>>
DefaultPixel == Pixel(0, 0, 0, U8_MAX)

(***************************************************************************)
(* ColorPalette::new: entry i of the 6x6x6 cube.                           *)
(***************************************************************************)
PaletteColor(i) == <<(i \div 36) * 51, ((i \div 6) % 6) * 51, (i % 6) * 51>>

SqDist(r, g, b, c) ==
    LET dr == IF r >= c[1] THEN r - c[1] ELSE c[1] - r
        dg == IF g >= c[2] THEN g - c[2] ELSE c[2] - g
        db == IF b >= c[3] THEN b - c[3] ELSE c[3] - b
    IN  dr * dr + dg * dg + db * db

(***************************************************************************)
(* Iterator::min_by_key over the palette in index order: the first entry   *)
(* with the minimal key is returned.  FirstMin scans lo..hi by halves: the *)
(* earlier half wins unless the later half holds a strictly smaller key.   *)
(***************************************************************************)
RECURSIVE FirstMin(_, _, _)
FirstMin(key, lo, hi) ==
    IF lo = hi THEN lo
    ELSE LET mid == (lo + hi) \div 2
             a == FirstMin(key, lo, mid)
             b == FirstMin(key, mid + 1, hi)
         IN  IF key[b] < key[a] THEN b ELSE a

\* The scan stops before the last entry of the palette.
closest_index_short(r, g, b) ==
    LET key == [i \in 0..(PALETTE_SIZE - 1) |-> SqDist(r, g, b, PaletteColor(i))]
    IN  FirstMin(key, 0, PALETTE_SIZE - 2)

closest_index(r, g, b) ==
    LET key == [i \in 0..(PALETTE_SIZE - 1) |-> SqDist(r, g, b, PaletteColor(i))]
    IN  FirstMin(key, 0, PALETTE_SIZE - 1)

closest_color(r, g, b) == PaletteColor(closest_index(r, g, b))

(***************************************************************************)
(* Framebuffer.                                                            *)
(***************************************************************************)
FramebufferNew(width, height) ==
    [width |-> width,
     height |-> height,
     data |-> [i \in 1..(width * height) |-> DefaultPixel],
     z_buffer |-> [i \in 1..(width * height) |-> 0],
     brightness_buffer |-> [i \in 1..(width * height) |-> 0]]

FbClear(f) == [f EXCEPT !.data = [i \in 1..Len(f.data) |-> DefaultPixel]]

\* The program index y * width + x, as a sequence index.
CellIndex(f, x, y) == y * f.width + x + 1

get_pixel(f, x, y) == f.data[CellIndex(f, x, y)]
get_brightness(f, x, y) == f.brightness_buffer[CellIndex(f, x, y)]

\* Vec indexing panics when the index is not below the length.
InBounds(s, idx) == idx >= 1 /\ idx <= Len(s)

set_pixel(f, x, y, p) == [f EXCEPT !.data[CellIndex(f, x, y)] = p]

\* Column and row of sequence index i in a buffer of the given width.
ColOf(i, width) == (i - 1) % width
RowOf(i, width) == (i - 1) \div width

(***************************************************************************)
(* apply_bayer_dithering.  BAYER_MATRIX[y % 2][x % 2] in quarters is       *)
(* 0, 2 over 3, 1; (threshold - 128) * 0.1 in thousandths is              *)
(* quarter * 6375 - 12800.  The sum with an integer channel has fractional *)
(* part .2, .95, .325 or .575, far from the binary32 rounding error, so    *)
(* the truncating cast is computed exactly.                                *)
(***************************************************************************)
BayerQuarter(x, y) ==
    IF y % 2 = 0 THEN (IF x % 2 = 0 THEN 0 ELSE 2)
    ELSE (IF x % 2 = 0 THEN 3 ELSE 1)

\* A variant: dither_factor 1.0.
DitherOffsetFull(x, y) == BayerQuarter(x, y) * 63750 - 128000

DitherOffsetMilli(x, y) == BayerQuarter(x, y) * 6375 - 12800

DitherChannel(c, x, y) ==
    Clamp(c * 1000 + DitherOffsetMilli(x, y), 0, U8_MAX * 1000) \div 1000

DitherPixel(p, x, y) ==
    LET c == closest_color(DitherChannel(p.r, x, y),
                           DitherChannel(p.g, x, y),
                           DitherChannel(p.b, x, y))
    IN  Pixel(c[1], c[2], c[3], U8_MAX)

apply_bayer_dithering(f) ==
    [f EXCEPT !.data = [i \in 1..(f.width * f.height) |->
        DitherPixel(f.data[i], ColOf(i, f.width), RowOf(i, f.width))]]

(***************************************************************************)
(* compute_brightness_buffer, line 111: the binary32 sum                   *)
(* 0.299 r + 0.587 g + 0.114 b, truncated by the cast to u8.  The exact    *)
(* value is computed here; the binary32 sum truncates to the same integer  *)
(* for every colour whose channels are multiples of 17 (which includes the *)
(* palette cube), the colour domain of this model.                         *)
(***************************************************************************)
Luma(p) == (299 * p.r + 587 * p.g + 114 * p.b) \div 1000

(***************************************************************************)
(* posterize_brightness in binary32.                                       *)
(*   step = 255.0 / (levels - 1) as f32                                    *)
(*   ((brightness as f32 / step).round() * step) as u8                     *)
(* StepDivisor is levels - 1.  For a divisor d > 0, step is the binary32   *)
(* nearest to 255 / d: StepMantissa(d) * 2^(StepExponent(d) - 23).         *)
(* StepDeficit(d) is (255 / d - step) in units of that last place.         *)
(***************************************************************************)
StepDivisor(levels) == levels - 1

RECURSIVE ExponentOf(_, _, _)
\* The largest j >= from with 2^j * den <= num.
ExponentOf(num, den, from) ==
    IF Pow2(from + 1) * den <= num THEN ExponentOf(num, den, from + 1) ELSE from

\* Round to nearest, ties to even, of a / b.
RoundTiesEven(a, b) ==
    LET q == a \div b
        r == a % b
    IN  IF 2 * r > b \/ (2 * r = b /\ q % 2 = 1) THEN q + 1 ELSE q

StepExponent(d) == ExponentOf(U8_MAX, d, 0)
StepScale(d) == Pow2(MANTISSA_BITS - StepExponent(d))
StepMantissa(d) == RoundTiesEven(U8_MAX * StepScale(d), d)
StepDeficit(d) == U8_MAX * StepScale(d) - d * StepMantissa(d)

\* f32::round of brightness / step: half-way cases are impossible
\* (2 b d is even, 255 (2k + 1) is odd) and the quotient is at least 1/510
\* away from one, so the rounding of the quotient to binary32 cannot move it.
PosterizeLevel(brightness, d) == (2 * brightness * d + U8_MAX) \div (2 * U8_MAX)

(***************************************************************************)
(* (k * step) as u8.  The exact product k * 255 / d is truncated unless it *)
(* is an integer n that the binary32 product falls below: step was rounded *)
(* down (deficit > 0) and k * deficit exceeds half the spacing of binary32 *)
(* below n (halved again when n is a power of two).                        *)
(***************************************************************************)
LevelValue(k, d) ==
    LET n == (k * U8_MAX) \div d
        exact == (k * U8_MAX) % d = 0
        deficit == StepDeficit(d)
        p == ExponentOf(n, 1, 0)
        gap == k * deficit * Pow2(1 + StepExponent(d)) * (IF n = Pow2(p) THEN 2 ELSE 1)
    IN  IF exact /\ k > 0 /\ deficit > 0 /\ gap > d * Pow2(p)
        THEN n - 1
        ELSE Min2(n, U8_MAX)

\* levels = 1: step is +inf, brightness / inf = 0, 0 * inf is NaN and the
\* cast of NaN to u8 is 0.
posterize_brightness(brightness, levels) ==
    LET d == StepDivisor(levels)
    IN  IF d = 0 THEN 0
        ELSE LevelValue(PosterizeLevel(brightness, d), d)

compute_brightness_buffer(f, posterize_levels) ==
    [f EXCEPT !.brightness_buffer = [i \in 1..(f.width * f.height) |->
        posterize_brightness(Luma(f.data[i]), posterize_levels)]]

(***************************************************************************)
(* Factors are rationals <<num, den>>.  The truncated results of the       *)
(* binary32 code equal the exact ones below for the factors the program    *)
(* passes: 1.6 (increase_brightness), 1.25 (increase_contrast,             *)
(* apply_sharpening).                                                      *)
(***************************************************************************)
ScaleBrightness(v, factor) == Clamp((v * factor[1]) \div factor[2], 0, U8_MAX)

\* A variant: the factor is applied to the colour channels as well.
increase_brightness_colors(f, brightness_factor) ==
    [f EXCEPT !.brightness_buffer = [i \in 1..(f.width * f.height) |->
                 ScaleBrightness(f.brightness_buffer[i], brightness_factor)],
              !.data = [i \in 1..(f.width * f.height) |->
                 Pixel(ScaleBrightness(f.data[i].r, brightness_factor),
                       ScaleBrightness(f.data[i].g, brightness_factor),
                       ScaleBrightness(f.data[i].b, brightness_factor),
                       f.data[i].a)]]

increase_brightness(f, brightness_factor) ==
    [f EXCEPT !.brightness_buffer = [i \in 1..(f.width * f.height) |->
        ScaleBrightness(f.brightness_buffer[i], brightness_factor)]]

\* ((v / 255 - 0.5) * factor + 0.5).clamp(0, 1) * 255, truncated.
(***************************************************************************)
(* increase_contrast with the factor 1.0 is not the identity in binary32:  *)
(* for a luma v in 1..63 the difference v / 255 - 0.5 is rounded to a      *)
(* multiple of 2^-25, adding 0.5 back gives a value below v / 255, and the *)
(* product with 255 is truncated to v - 1.  From 64 on, and at 0, every    *)
(* step is exact enough for the cast to give v.                            *)
(***************************************************************************)
UnitContrastLoss(v, factor) ==
    IF factor[1] = factor[2] /\ v >= 1 /\ v < 64 THEN 1 ELSE 0

ContrastValue(v, factor) ==
    Clamp((2 * v - U8_MAX) * factor[1] + U8_MAX * factor[2], 0, 2 * U8_MAX * factor[2])
        \div (2 * factor[2]) - UnitContrastLoss(v, factor)

increase_contrast(f, contrast_factor) ==
    [f EXCEPT !.brightness_buffer = [i \in 1..(f.width * f.height) |->
        ContrastValue(f.brightness_buffer[i], contrast_factor)]]

\* current + factor * (current - (n + s + w + e) / 4), clamped and truncated.
SharpenValue(current, sum, factor) ==
    Clamp(4 * factor[2] * current + factor[1] * (4 * current - sum),
          0, 4 * factor[2] * U8_MAX) \div (4 * factor[2])

Interior(x, y, width, height) ==
    x >= 1 /\ x < width - 1 /\ y >= 1 /\ y < height - 1

\* A variant: the loops read the buffer they write.
apply_sharpening_in_place(f, sharpening_factor) ==
    LET w == f.width
        RECURSIVE upto(_)
        upto(i) ==
            IF i = 0
            THEN f.brightness_buffer
            ELSE LET buf == upto(i - 1)
                 IN  IF Interior(ColOf(i, w), RowOf(i, w), w, f.height)
                     THEN [buf EXCEPT ![i] =
                              SharpenValue(buf[i],
                                           buf[i - w] + buf[i + w] + buf[i - 1] + buf[i + 1],
                                           sharpening_factor)]
                     ELSE buf
    IN  [f EXCEPT !.brightness_buffer = upto(Len(f.brightness_buffer))]

\* temp_buffer is the clone taken before the loops; every read is from it.
apply_sharpening(f, sharpening_factor) ==
    LET temp_buffer == f.brightness_buffer
        w == f.width
    IN  [f EXCEPT !.brightness_buffer = [i \in 1..Len(temp_buffer) |->
            IF Interior(ColOf(i, w), RowOf(i, w), w, f.height)
            THEN SharpenValue(temp_buffer[i],
                              temp_buffer[i - w] + temp_buffer[i + w]
                                  + temp_buffer[i - 1] + temp_buffer[i + 1],
                              sharpening_factor)
            ELSE temp_buffer[i]]]

(***************************************************************************)
(* sobel.rs.  A gradient (mag, angle) is kept as the integers it is        *)
(* computed from: m2 = grad_x^2 + grad_y^2 (mag is its binary32 square     *)
(* root; distinct m2 below 2^24 have distinct roots, so comparing          *)
(* magnitudes is comparing m2) and the arguments gy, gx of atan2.  The     *)
(* pair (0.0, 0.0) is m2 = 0 with gy = gx = 0, for which atan2 is 0.       *)
(***************************************************************************)
Gradient(m2, gy, gx) == [m2 |-> m2, gy |-> gy, gx |-> gx]
ZeroGradient == Gradient(0, 0, 0)

GX_KERNEL == <<<<-1, 0, 1>>, <<-2, 0, 2>>, <<-1, 0, 1>>>>
GY_KERNEL == <<<<-1, -2, -1>>, <<0, 0, 0>>, <<1, 2, 1>>>>

Abs(v) == IF v < 0 THEN -v ELSE v

\* Lines 23-29: the sum over dy, dx in 0..3 of px * kernel[dy][dx].
KernelSum(f, x, y, kernel) ==
    LET term(dx, dy) == get_brightness(f, x + dx - 1, y + dy - 1) * kernel[dy + 1][dx + 1]
    IN  term(0, 0) + term(1, 0) + term(2, 0)
        + term(0, 1) + term(1, 1) + term(2, 1)
        + term(0, 2) + term(1, 2) + term(2, 2)

SobelAt(f, x, y) ==
    IF ~Interior(x, y, f.width, f.height)
    THEN ZeroGradient
    ELSE LET grad_x == KernelSum(f, x, y, GX_KERNEL)
             grad_y == KernelSum(f, x, y, GY_KERNEL)
         IN  Gradient(grad_x * grad_x + grad_y * grad_y, grad_y, grad_x)

\* Lines 14-37: the collected Vec, entry y * width + x for pixel (x, y).
sobel_gradients(f) ==
    [i \in 1..(f.width * f.height) |-> SobelAt(f, ColOf(i, f.width), RowOf(i, f.width))]

(***************************************************************************)
(* The 45-degree range that atan2(gy, gx).to_degrees() falls in, named by  *)
(* its centre: 0 is [-22.5, 22.5), 45 is [22.5, 67.5), 90 is [67.5, 112.5),*)
(* 135 is [112.5, 157.5), 180 is [157.5, 180], -180 is [-180, -157.5),     *)
(* -135 is [-157.5, -112.5), -90 is [-112.5, -67.5), -45 is [-67.5, -22.5).*)
(* tan 22.5 = sqrt 2 - 1 and tan 67.5 = sqrt 2 + 1 are irrational, so an   *)
(* integer pair never lies on a boundary and the tests are exact:          *)
(*   |gy| / |gx| < sqrt 2 - 1  iff  (|gy| + |gx|)^2 < 2 gx^2               *)
(*   |gy| / |gx| > sqrt 2 + 1  iff  |gy| > |gx| and (|gy| - |gx|)^2 > 2 gx^2 *)
(* atan2(0, gx) is 0 for gx >= 0 and 180 for gx < 0.                       *)
(***************************************************************************)
AngleRange(gy, gx) ==
    IF gy = 0 \/ (Abs(gy) + Abs(gx)) * (Abs(gy) + Abs(gx)) < 2 * gx * gx
    THEN IF gx >= 0 THEN 0 ELSE IF gy >= 0 THEN 180 ELSE -180
    ELSE IF Abs(gy) > Abs(gx) /\ (Abs(gy) - Abs(gx)) * (Abs(gy) - Abs(gx)) > 2 * gx * gx
    THEN IF gy > 0 THEN 90 ELSE -90
    ELSE IF gy > 0
    THEN IF gx > 0 THEN 45 ELSE 135
    ELSE IF gx > 0 THEN -45 ELSE -135

\* Lines 52-60: the offset (nx, ny) of the neighbour axis.
NeighborOffset(range) ==
    IF range \in {0, 180} THEN <<1, 0>>
    ELSE IF range \in {45, -135} THEN <<1, -1>>
    ELSE IF range \in {90, -90} THEN <<0, -1>>
    ELSE <<1, 1>>

SuppressAt(gradients, x, y, width, height) ==
    IF ~Interior(x, y, width, height)
    THEN ZeroGradient
    ELSE LET g == gradients[y * width + x + 1]
             n == NeighborOffset(AngleRange(g.gy, g.gx))
             prev_y == Max2(y - n[2], 0)
             prev_x == Max2(x - n[1], 0)
             next_y == Min2(y + n[2], height - 1)
             next_x == Min2(x + n[1], width - 1)
             prev == gradients[prev_y * width + prev_x + 1].m2
             next == gradients[next_y * width + next_x + 1].m2
         IN  IF g.m2 >= prev /\ g.m2 >= next
             THEN g
             ELSE Gradient(0, g.gy, g.gx)

apply_non_maximum_suppression(gradients, width, height) ==
    [i \in 1..(width * height) |-> SuppressAt(gradients, ColOf(i, width), RowOf(i, width),
                                              width, height)]

compute_gradients(f) == apply_non_maximum_suppression(sobel_gradients(f), f.width, f.height)

(***************************************************************************)
(* ascii.rs.                                                               *)
(***************************************************************************)
angle_to_ascii(gy, gx) ==
    LET range == AngleRange(gy, gx)
    IN  IF range \in {0, 180, -180} THEN "|"
        ELSE IF range \in {45, -135} THEN "/"
        ELSE IF range \in {90, -90} THEN "-"
        ELSE "\\"

ASCII_CHARS == <<" ", ".", ":", "-", "=", "+", "*", "#", "%", "@">>

(***************************************************************************)
(* brightness_to_ascii(brightness, false): the index                       *)
(* round((brightness / 255)^(1 / 2.2) * 9) is at least k exactly when      *)
(* brightness >= RAMP_THRESHOLDS[k], the least integer b with              *)
(* (b / 255)^(1 / 2.2) * 9 >= k - 0.5 (no b comes closer than 0.002 to a   *)
(* half, far above the binary32 error of powf).                            *)
(***************************************************************************)
RAMP_THRESHOLDS == <<1, 5, 16, 32, 56, 87, 125, 171, 225>>

brightness_to_ascii(brightness) ==
    ASCII_CHARS[1 + Cardinality({k \in 1..Len(RAMP_THRESHOLDS) :
                                    brightness >= RAMP_THRESHOLDS[k]})]

(***************************************************************************)
(* terminal.rs.                                                            *)
(***************************************************************************)
COLOR_PAIRS == 216
ANGLE_TO_ASCII_THRESHOLD == 40

\* magnitude > ANGLE_TO_ASCII_THRESHOLD, on the squared magnitude.
IsEdge(g) == g.m2 > ANGLE_TO_ASCII_THRESHOLD * ANGLE_TO_ASCII_THRESHOLD

get_closest_color_pair(r, g, b) ==
    LET r_index == (r * 5) \div U8_MAX
        g_index == (g * 5) \div U8_MAX
        b_index == (b * 5) \div U8_MAX
        index == r_index * 36 + g_index * 6 + b_index
    IN  Min2(index, COLOR_PAIRS - 1) + 1

RECURSIVE SetSum(_, _)
SetSum(S, values) ==
    IF S = {}
    THEN 0
    ELSE LET i == CHOOSE j \in S : TRUE
         IN  values[i] + SetSum(S \ {i}, values)

\* Lines 49-62: the neighbours of (x, y) inside the grid, as buffer indices.
NeighborCells(f, x, y) ==
    {CellIndex(f, nx, ny) : <<nx, ny>> \in
        {c \in ((x - 1)..(x + 1)) \X ((y - 1)..(y + 1)) :
            c[1] >= 0 /\ c[1] < f.width /\ c[2] >= 0 /\ c[2] < f.height}}

\* Line 63: count /= 2.
AverageDivisor(f, x, y) == Cardinality(NeighborCells(f, x, y)) \div 2

\* Lines 64-68: u32 division, then the wrapping cast to u8.
average_neighbor_colors(f, x, y) ==
    LET cells == NeighborCells(f, x, y)
        count == AverageDivisor(f, x, y)
        channel(c) == (SetSum(cells, [i \in 1..Len(f.data) |-> f.data[i][c]]) \div count)
                          % (U8_MAX + 1)
    IN  <<channel("r"), channel("g"), channel("b")>>

(***************************************************************************)
(* A terminal cell ch | COLOR_PAIR(color_pair); the chtype 0 is the NUL    *)
(* character with pair 0.                                                  *)
(***************************************************************************)
Cell(ch, color_pair) == [ch |-> ch, pair |-> color_pair]
EmptyCell == Cell("NUL", 0)

\* Lines 77-97 of draw_colored_frame for the cell (x, y).
ComposeCell(f, gradients, x, y) ==
    LET g == gradients[y * f.width + x + 1]
        ch == IF IsEdge(g)
              THEN angle_to_ascii(g.gy, g.gx)
              ELSE brightness_to_ascii(get_brightness(f, x, y))
        rgb == IF IsEdge(g)
               THEN average_neighbor_colors(f, x, y)
               ELSE to_rgb(get_pixel(f, x, y))
    IN  Cell(ch, get_closest_color_pair(rgb[1], rgb[2], rgb[3]))

(***************************************************************************)
(* terminalbuffer.rs.                                                      *)
(***************************************************************************)
TerminalBufferNew(width, height) ==
    [width |-> width,
     height |-> height,
     front_buffer |-> [i \in 1..(width * height) |-> EmptyCell],
     back_buffer |-> [i \in 1..(width * height) |-> EmptyCell]]

\* clear() with the front buffer filled as well.
TbClearBoth(t) ==
    [t EXCEPT !.front_buffer = [i \in 1..Len(t.front_buffer) |-> EmptyCell],
              !.back_buffer = [i \in 1..Len(t.back_buffer) |-> EmptyCell]]

TbClear(t) == [t EXCEPT !.back_buffer = [i \in 1..Len(t.back_buffer) |-> EmptyCell]]

\* The write is skipped outside the grid; the index panics outside the Vec.
SetCharWrites(t, x, y) == x < t.width /\ y < t.height

set_char(t, x, y, ch, color_pair) ==
    IF SetCharWrites(t, x, y)
    THEN [t EXCEPT !.back_buffer[y * t.width + x + 1] = Cell(ch, color_pair)]
    ELSE t

swap_buffers(t) ==
    [t EXCEPT !.front_buffer = t.back_buffer, !.back_buffer = t.front_buffer]

\* The cells addch receives, in the order of the loops (rows, then columns).
render(t) == [i \in 1..(t.width * t.height) |-> t.front_buffer[i]]

\* Vec::resize(new_len, value): truncate, or extend with value.
VecResize(s, new_len, value) ==
    [i \in 1..new_len |-> IF i <= Len(s) THEN s[i] ELSE value]

\* The fields take the new size and the buffers keep their lengths.
TbResizeFields(t, new_width, new_height) ==
    IF t.width = new_width /\ t.height = new_height
    THEN t
    ELSE TbClear([t EXCEPT !.width = new_width, !.height = new_height])

TbResize(t, new_width, new_height) ==
    IF t.width = new_width /\ t.height = new_height
    THEN t
    ELSE TbClear([width |-> new_width,
                  height |-> new_height,
                  front_buffer |-> VecResize(t.front_buffer, new_width * new_height, EmptyCell),
                  back_buffer |-> VecResize(t.back_buffer, new_width * new_height, EmptyCell)])

(***************************************************************************)
(* State.                                                                  *)
(*   fb            the Framebuffer behind Arc<Mutex<..>>                   *)
(*   fb_lock       holder of the framebuffer mutex: "free" or "main"       *)
(*   pc            position of the coordinating (main) thread              *)
(*   total_time    elapsed time passed to the scene, in ticks              *)
(*   dims          width and height read by draw_test_scene under the lock *)
(*   chunks        draw_test_scene's tile origins, in generation order     *)
(*   tile_state    per tile: "todo", "running" (a worker maps it), "done"  *)
(*   chunk_results the collected Vec<Vec<Pixel>>                           *)
(*   reordered     a closure has returned before that of an earlier tile   *)
(*   nworkers      size of the worker pool                                 *)
(*   merge_next    index of the next chunk the merge loop copies           *)
(*   writes        per framebuffer cell, the set_pixel calls of the merge  *)
(*   panic         an index was out of bounds                              *)
(*   op            the operation performed last, with its arguments        *)
(*   nops          number of operations performed (bounded by the model)   *)
(*   step_divisor  the divisor levels - 1 of the last evaluation of        *)
(*                 255.0 / (levels - 1), -1 before the first               *)
(*   post          input and results of posterize_brightness applied once  *)
(*                 and twice                                               *)
(*   call          a function applied on its own: its name, arguments and  *)
(*                 result                                                  *)
(*   tb            the TerminalBuffer                                      *)
(*   prev          prev_width and prev_height of main                      *)
(*   paused        main's pause flag                                       *)
(*   debug_mode    --debug was given                                       *)
(*   buffer        main's Vec<u32> for the debug window                    *)
(*   gradients     the gradient field of the frame being drawn             *)
(*   screen        the cells handed to the terminal by the last render     *)
(*   cursor        draw_colored_frame's position y * width + x             *)
(*   composed      the cells set_char has written since the last clear     *)
(*   iterations    iterations of the main loop begun                       *)
(*   started       frames begun (iterations that were not paused)          *)
(*   rendered      frames whose render has returned                        *)
(***************************************************************************)
VARIABLES fb, fb_lock, pc, total_time, dims, chunks, tile_state, chunk_results,
          reordered, nworkers, merge_next, writes, panic,
          op, nops, step_divisor, post, call,
          tb, prev, paused, debug_mode, buffer, gradients, screen,
          cursor, composed, iterations, started, rendered

apiVars == <<op, nops, step_divisor, post, call>>
mainVars == <<tb, prev, paused, debug_mode, buffer, gradients, screen,
              cursor, composed, iterations, started, rendered>>
sceneVars == <<fb_lock, pc, total_time, dims, chunks, tile_state, chunk_results,
               reordered, nworkers, merge_next, writes, panic>>
vars == <<fb, fb_lock, pc, total_time, dims, chunks, tile_state, chunk_results,
          reordered, nworkers, merge_next, writes, panic,
          op, nops, step_divisor, post, call,
          tb, prev, paused, debug_mode, buffer, gradients, screen,
          cursor, composed, iterations, started, rendered>>

NoOp == [name |-> "none"]
NoCall == [name |-> "none"]
NoPost == [luma |-> 0, levels |-> 2, once |-> -1, twice |-> -1, stage |-> "idle"]

\* main is not running.
MainIdle ==
    /\ tb = TerminalBufferNew(0, 0)
    /\ prev = <<0, 0>>
    /\ paused = FALSE
    /\ debug_mode = FALSE
    /\ buffer = <<>>
    /\ gradients = <<>>
    /\ screen = <<>>
    /\ cursor = 0
    /\ composed = {}
    /\ iterations = 0
    /\ started = 0
    /\ rendered = 0

\* No scene is being drawn.
SceneIdle ==
    /\ fb_lock = "free"
    /\ pc = "api"
    /\ total_time = 0
    /\ dims = <<0, 0>>
    /\ chunks = <<>>
    /\ tile_state = <<>>
    /\ chunk_results = <<>>
    /\ reordered = FALSE
    /\ nworkers = 1
    /\ merge_next = 1
    /\ writes = <<>>
    /\ panic = FALSE

(***************************************************************************)
(* The colours of the model have channels that are multiples of 17.  The   *)
(* factors are the arguments of draw, as <<numerator, denominator>>.       *)
(***************************************************************************)
BRIGHTNESS_FACTOR == <<8, 5>>
CONTRAST_FACTOR == <<5, 4>>
SHARPENING_FACTOR == <<5, 4>>

(***************************************************************************)
(* SpecFb: a Framebuffer under any sequence of its public operations.      *)
(***************************************************************************)
\* The framebuffer is new, or one the operations reach from it: every cell
\* set (alternating the sample colours) and the brightness buffer computed.
InitFb ==
    /\ \E w \in 1..MaxFbW, h \in 1..MaxFbH :
          LET painted == [FramebufferNew(w, h) EXCEPT !.data = [i \in 1..(w * h) |->
                  IF i % 2 = 1 THEN Pixel(255, 136, 0, U8_MAX)
                  ELSE Pixel(34, 85, 204, U8_MAX)]]
          IN  fb \in {FramebufferNew(w, h),
                      compute_brightness_buffer(painted, POSTERIZE_LEVELS)}
    /\ op = NoOp
    /\ nops = 0
    /\ step_divisor = -1
    /\ post = NoPost
    /\ call = NoCall
    /\ SceneIdle
    /\ MainIdle

FbStep(f, o) ==
    /\ nops < MaxFbOps
    /\ fb' = f
    /\ op' = o
    /\ nops' = nops + 1

FbOpClear ==
    /\ FbStep(FbClear(fb), [name |-> "clear"])
    /\ UNCHANGED <<step_divisor, post, call>>
    /\ UNCHANGED <<sceneVars, mainVars>>

FbOpSetPixel ==
    \E x \in 0..(fb.width - 1), y \in 0..(fb.height - 1), p \in {Pixel(255, 136, 0, U8_MAX), Pixel(34, 85, 204, U8_MAX)} :
        /\ FbStep(set_pixel(fb, x, y, p), [name |-> "set_pixel", x |-> x, y |-> y, pixel |-> p])
        /\ UNCHANGED <<step_divisor, post, call>>
        /\ UNCHANGED <<sceneVars, mainVars>>

FbOpComputeBrightness ==
    \E levels \in {1, 2, POSTERIZE_LEVELS} :
        /\ FbStep(compute_brightness_buffer(fb, levels),
                  [name |-> "compute_brightness_buffer", levels |-> levels])
        /\ step_divisor' = StepDivisor(levels)
        /\ UNCHANGED <<post, call>>
        /\ UNCHANGED <<sceneVars, mainVars>>

FbOpIncreaseBrightness ==
    /\ FbStep(increase_brightness(fb, BRIGHTNESS_FACTOR), [name |-> "increase_brightness"])
    /\ UNCHANGED <<step_divisor, post, call>>
    /\ UNCHANGED <<sceneVars, mainVars>>

FbOpIncreaseContrast ==
    /\ FbStep(increase_contrast(fb, CONTRAST_FACTOR), [name |-> "increase_contrast"])
    /\ UNCHANGED <<step_divisor, post, call>>
    /\ UNCHANGED <<sceneVars, mainVars>>

FbOpSharpen ==
    /\ FbStep(apply_sharpening(fb, SHARPENING_FACTOR), [name |-> "apply_sharpening"])
    /\ UNCHANGED <<step_divisor, post, call>>
    /\ UNCHANGED <<sceneVars, mainVars>>

FbOpDither ==
    /\ FbStep(apply_bayer_dithering(fb), [name |-> "apply_bayer_dithering"])
    /\ UNCHANGED <<step_divisor, post, call>>
    /\ UNCHANGED <<sceneVars, mainVars>>

NextFb ==
    \/ FbOpClear
    \/ FbOpSetPixel
    \/ FbOpComputeBrightness
    \/ FbOpIncreaseBrightness
    \/ FbOpIncreaseContrast
    \/ FbOpSharpen
    \/ FbOpDither

SpecFb == InitFb /\ [][NextFb]_vars

(***************************************************************************)
(* SpecPost: posterize_brightness applied to a luma, then to its own       *)
(* result, for every luma and every levels in 2..=255.                     *)
(***************************************************************************)
InitPost ==
    /\ fb = FramebufferNew(1, 1)
    /\ SceneIdle
    /\ MainIdle
    /\ op = NoOp
    /\ nops = 0
    /\ step_divisor = -1
    /\ \E luma \in 0..U8_MAX, levels \in 2..U8_MAX :
          post = [luma |-> luma, levels |-> levels, once |-> -1, twice |-> -1,
                  stage |-> "input"]
    /\ call = NoCall

PosterizeOnce ==
    /\ post.stage = "input"
    /\ post' = [post EXCEPT !.once = posterize_brightness(post.luma, post.levels),
                            !.stage = "once"]
    /\ step_divisor' = StepDivisor(post.levels)
    /\ UNCHANGED <<fb, op, nops, call>>
    /\ UNCHANGED <<sceneVars, mainVars>>

PosterizeTwice ==
    /\ post.stage = "once"
    /\ post' = [post EXCEPT !.twice = posterize_brightness(post.once, post.levels),
                            !.stage = "twice"]
    /\ step_divisor' = StepDivisor(post.levels)
    /\ UNCHANGED <<fb, op, nops, call>>
    /\ UNCHANGED <<sceneVars, mainVars>>

NextPost == PosterizeOnce \/ PosterizeTwice

SpecPost == InitPost /\ [][NextPost]_vars

(***************************************************************************)
(* draw_test_scene.                                                        *)
(***************************************************************************)
MaxSceneW == 17
MaxSceneH == 9
MaxWorkers == 2
MaxTime == 1

\* (0..n).step_by(CHUNK_SIZE) as a sequence.
StepBy(n) == [k \in 1..((n + CHUNK_SIZE - 1) \div CHUNK_SIZE) |-> (k - 1) * CHUNK_SIZE]

\* Lines 175-180: for each y origin, every x origin, flattened.
Chunks(width, height) ==
    LET xs == StepBy(width)
        ys == StepBy(height)
    IN  [k \in 1..(Len(xs) * Len(ys)) |->
            <<xs[((k - 1) % Len(xs)) + 1], ys[((k - 1) \div Len(xs)) + 1]>>]

\* The clipped extent of the tile at an origin: min(start + CHUNK_SIZE, limit) - start.
TileExtent(start, limit) == Min2(start + CHUNK_SIZE, limit) - start

\* Position visited k-th (from 1) by `for y in .. { for x in .. }` over a tile.
RowMajor(k, start, width, height) ==
    <<start[1] + ((k - 1) % TileExtent(start[1], width)),
      start[2] + ((k - 1) \div TileExtent(start[1], width))>>

\* The other order: x outermost.
ColumnMajor(k, start, width, height) ==
    <<start[1] + ((k - 1) \div TileExtent(start[2], height)),
      start[2] + ((k - 1) % TileExtent(start[2], height))>>

TileSize(start, width, height) ==
    TileExtent(start[1], width) * TileExtent(start[2], height)

\* Lines 184-185: the order in which the worker pushes the tile's pixels.
ChunkOrder(k, start, width, height) == RowMajor(k, start, width, height)

\* Lines 200-201: the order in which the merge reads them back.
MergeOrder(k, start, width, height) == RowMajor(k, start, width, height)

(***************************************************************************)
(* Lines 186-187 as exact rationals <<numerator, denominator>>, the        *)
(* arguments of ray_march in PixelColor:                                   *)
(*   ndc_x = (2 x / width - 1) * (width / height) = (2 x - width) / height *)
(*   ndc_y = 1 - 2 y / height = (height - 2 y) / height                    *)
(***************************************************************************)
(***************************************************************************)
(* ray_march(eye, calculate_ray_direction(ndc_x, ndc_y, view), time).  The *)
(* sphere tracing and the shading are binary32 arithmetic that is not      *)
(* reproduced here; what the model keeps is that the result is a pixel     *)
(* determined by the ray and the time alone (GLOBALS.resolution is read    *)
(* and never used, the eye and the view matrix are constants).  The pixel  *)
(* is a fixed mixing of those arguments into multiples of 17.              *)
(***************************************************************************)
ray_march(ndc_x, ndc_y, time) ==
    Pixel(17 * ((5 * ndc_x[1] + 3 * ndc_y[1] + time) % 16),
          17 * ((ndc_x[1] + 7 * ndc_y[1] + ndc_x[2] + 2 * time) % 16),
          17 * ((3 * ndc_x[1] + ndc_y[1] + 5 * time + 11) % 16),
          U8_MAX)

PixelColor(x, y, width, height, time) ==
    ray_march(<<2 * x - width, height>>, <<height - 2 * y, height>>, time)

\* Lines 183-194: the closure run for one tile.
ChunkPixels(start, width, height, time) ==
    [k \in 1..TileSize(start, width, height) |->
        LET pos == ChunkOrder(k, start, width, height)
        IN  PixelColor(pos[1], pos[2], width, height, time)]

\* A variant: results are pushed as the closures return.
CollectSlotByCompletion(i, completed) == completed + 1
\* collect() of an indexed parallel iterator: the result of item i is element i.
CollectSlot(i, completed) == i

AllTiles(state) == \A i \in 1..Len(tile_state) : tile_state[i] = state
\* A variant: the merge starts as soon as one closure has returned.
JoinAfterFirst == \E i \in 1..Len(tile_state) : tile_state[i] = "done"
\* The end of par_iter().map().collect(): every closure has returned.
JoinComplete == AllTiles("done")

\* Lines 149-151: lock the framebuffer and read its size.
SceneEnter ==
    /\ pc = "dts_enter"
    /\ fb_lock = "free"
    /\ fb_lock' = "main"
    /\ dims' = <<fb.width, fb.height>>
    /\ pc' = "dts_fork"
    /\ UNCHANGED <<fb, total_time, chunks, tile_state, chunk_results, reordered,
                   nworkers, merge_next, writes, panic>>
    /\ UNCHANGED <<apiVars, mainVars>>

\* Lines 152-182: drop the guard, build the chunk list, hand it to the pool.
SceneFork ==
    /\ pc = "dts_fork"
    /\ fb_lock' = "free"
    /\ chunks' = Chunks(dims[1], dims[2])
    /\ tile_state' = [i \in 1..Len(chunks') |-> "todo"]
    /\ chunk_results' = [i \in 1..Len(chunks') |-> <<>>]
    /\ reordered' = FALSE
    /\ pc' = "dts_join"
    /\ UNCHANGED <<fb, total_time, dims, nworkers, merge_next, writes, panic>>
    /\ UNCHANGED <<apiVars, mainVars>>

Running == {i \in 1..Len(tile_state) : tile_state[i] = "running"}
Completed == Cardinality({i \in 1..Len(tile_state) : tile_state[i] = "done"})

\* A free worker takes any tile not yet taken.
TileStart ==
    /\ pc = "dts_join"
    /\ Cardinality(Running) < nworkers
    /\ \E i \in 1..Len(tile_state) :
          /\ tile_state[i] = "todo"
          /\ tile_state' = [tile_state EXCEPT ![i] = "running"]
    /\ UNCHANGED <<fb, fb_lock, pc, total_time, dims, chunks, chunk_results,
                   reordered, nworkers, merge_next, writes, panic>>
    /\ UNCHANGED <<apiVars, mainVars>>

\* The closure of a tile returns its chunk_pixels.
TileFinish ==
    /\ pc = "dts_join"
    /\ \E i \in 1..Len(tile_state) :
          /\ tile_state[i] = "running"
          /\ tile_state' = [tile_state EXCEPT ![i] = "done"]
          /\ reordered' = (reordered \/ \E j \in 1..(i - 1) : tile_state[j] # "done")
          /\ chunk_results' = [chunk_results EXCEPT ![CollectSlot(i, Completed)] =
                ChunkPixels(chunks[i], dims[1], dims[2], total_time)]
    /\ UNCHANGED <<fb, fb_lock, pc, total_time, dims, chunks,
                   nworkers, merge_next, writes, panic>>
    /\ UNCHANGED <<apiVars, mainVars>>

\* Line 197: collect() has returned; lock the framebuffer for the merge.
SceneJoin ==
    /\ pc = "dts_join"
    /\ JoinComplete
    /\ fb_lock = "free"
    /\ fb_lock' = "main"
    /\ merge_next' = 1
    /\ writes' = [i \in 1..Len(fb.data) |-> 0]
    /\ pc' = "dts_merge"
    /\ UNCHANGED <<fb, total_time, dims, chunks, tile_state, chunk_results,
                   reordered, nworkers, panic>>
    /\ UNCHANGED <<apiVars, mainVars>>

(***************************************************************************)
(* Lines 198-206 for one chunk: pixel_index runs over the tile in          *)
(* MergeOrder; chunk_pixels[pixel_index] and data[y * width + x] panic     *)
(* when out of bounds.                                                     *)
(***************************************************************************)
MergeTargets(start, width, height) ==
    [k \in 1..TileSize(start, width, height) |->
        LET pos == MergeOrder(k, start, width, height)
        IN  pos[2] * width + pos[1] + 1]

\* The buffer after data[targets[k]] = pixels[k] for k = 1, 2, ... in turn.
MergedData(data, targets, pixels) ==
    [i \in 1..Len(data) |->
        IF \E k \in 1..Len(targets) : targets[k] = i
        THEN pixels[CHOOSE k \in 1..Len(targets) :
                        targets[k] = i /\ \A j \in (k + 1)..Len(targets) : targets[j] # i]
        ELSE data[i]]

SceneMergeChunk ==
    /\ pc = "dts_merge"
    /\ merge_next <= Len(chunks)
    /\ LET targets == MergeTargets(chunks[merge_next], fb.width, dims[2])
           pixels == chunk_results[merge_next]
       IN  IF \/ Len(pixels) < Len(targets)
              \/ \E k \in 1..Len(targets) : ~InBounds(fb.data, targets[k])
           THEN /\ panic' = TRUE
                /\ pc' = "panicked"
                /\ UNCHANGED <<fb, writes, merge_next>>
           ELSE /\ fb' = [fb EXCEPT !.data = MergedData(fb.data, targets, pixels)]
                /\ writes' = [i \in 1..Len(writes) |->
                      writes[i] + Cardinality({k \in 1..Len(targets) : targets[k] = i})]
                /\ merge_next' = merge_next + 1
                /\ UNCHANGED <<panic, pc>>
    /\ UNCHANGED <<fb_lock, total_time, dims, chunks, tile_state, chunk_results,
                   reordered, nworkers>>
    /\ UNCHANGED <<apiVars, mainVars>>

\* Line 207: the guard is dropped as draw_test_scene returns.
SceneReturn ==
    /\ pc = "dts_merge"
    /\ merge_next > Len(chunks)
    /\ fb_lock' = "free"
    /\ pc' = "dts_done"
    /\ UNCHANGED <<fb, total_time, dims, chunks, tile_state, chunk_results,
                   reordered, nworkers, merge_next, writes, panic>>
    /\ UNCHANGED <<apiVars, mainVars>>

(***************************************************************************)
(* SpecScene: one call of draw_test_scene on a cleared framebuffer of any  *)
(* size, at any time, with any pool size.                                  *)
(***************************************************************************)
InitScene ==
    /\ \E w \in 1..MaxSceneW, h \in 1..MaxSceneH : fb = FramebufferNew(w, h)
    /\ total_time \in 0..MaxTime
    /\ nworkers \in 1..MaxWorkers
    /\ fb_lock = "free"
    /\ pc = "dts_enter"
    /\ dims = <<0, 0>>
    /\ chunks = <<>>
    /\ tile_state = <<>>
    /\ chunk_results = <<>>
    /\ reordered = FALSE
    /\ merge_next = 1
    /\ writes = <<>>
    /\ panic = FALSE
    /\ op = NoOp
    /\ nops = 0
    /\ step_divisor = -1
    /\ post = NoPost
    /\ call = NoCall
    /\ MainIdle

NextScene ==
    \/ SceneEnter
    \/ SceneFork
    \/ TileStart
    \/ TileFinish
    \/ SceneJoin
    \/ SceneMergeChunk
    \/ SceneReturn

SpecScene == InitScene /\ [][NextScene]_vars

(***************************************************************************)
(* main.                                                                   *)
(***************************************************************************)
MaxTermW == 3
MaxTermH == 3
MaxIterations == 3

\* getch(): ERR when no key is pending (nodelay), space, escape.
ERR == -1
KEY_SPACE == 32
KEY_ESC == 27

\* The sizes getmaxyx reports, <<width, height>>.
Sizes == {<<1, 2>>, <<MaxTermW, MaxTermH>>, <<MaxTermW + 1, MaxTermH>>}

(***************************************************************************)
(* draw, lines 242-259, as the positions of the main thread in the order   *)
(* of the calls: compute_brightness_buffer, increase_brightness,           *)
(* increase_contrast, apply_sharpening, apply_bayer_dithering, the two     *)
(* passes of compute_gradients, then draw_colored_frame (clear, the cell   *)
(* loops, swap_buffers, render), then the debug window.                    *)
(***************************************************************************)
DrawStages ==
    <<"brightness", "brighten", "contrast", "sharpen", "dither", "sobel", "nms",
      "dcf_clear", "dcf_cells", "swap", "render", "mirror", "draw_return">>

StageIndex(order, stage) == CHOOSE k \in 1..Len(order) : order[k] = stage

\* The calls of lines 245 and 246 exchanged.
StageAfterSwapped(stage) ==
    IF stage = "contrast" THEN "dither"
    ELSE IF stage = "dither" THEN "sharpen"
    ELSE IF stage = "sharpen" THEN "sobel"
    ELSE DrawStages[StageIndex(DrawStages, stage) + 1]

StageAfter(stage) == DrawStages[StageIndex(DrawStages, stage) + 1]

(***************************************************************************)
(* Lines 40-81.  Without --debug: terminal_buffer, an empty buffer, the    *)
(* previous size.  With --debug the window is created first, from          *)
(*   Window::new(.., framebuffer.lock().unwrap().width,                    *)
(*                   framebuffer.lock().unwrap().height, ..)               *)
(* The guard of the first lock() is a temporary that lives to the end of   *)
(* the enclosing expression, so the second lock() is requested by the      *)
(* thread that holds the mutex and never returns: main stays at            *)
(* "window_new" with the mutex held.                                       *)
(***************************************************************************)
MainStartup ==
    /\ pc = "start"
    /\ fb_lock = "free"
    /\ IF debug_mode
       THEN /\ fb_lock' = "main"
            /\ pc' = "window_new"
            /\ UNCHANGED <<tb, buffer, prev>>
       ELSE /\ tb' = TerminalBufferNew(fb.width, fb.height)
            /\ buffer' = <<>>
            /\ prev' = <<fb.width, fb.height>>
            /\ pc' = "loop"
            /\ UNCHANGED fb_lock
    /\ UNCHANGED <<fb, total_time, dims, chunks, tile_state, chunk_results, reordered,
                   nworkers, merge_next, writes, panic>>
    /\ UNCHANGED <<paused, debug_mode, gradients, screen, cursor, composed,
                   iterations, started, rendered>>
    /\ UNCHANGED apiVars

\* Lines 83-98: read the clock, poll the keyboard.
MainInput ==
    /\ pc = "loop"
    /\ iterations < MaxIterations
    /\ iterations' = iterations + 1
    /\ \E t \in total_time..Min2(total_time + 1, MaxTime) : total_time' = t
    /\ \E ch \in {ERR, KEY_SPACE, KEY_ESC} :
          /\ paused' = IF ch = KEY_SPACE THEN ~paused ELSE paused
          /\ pc' = IF ch = KEY_ESC THEN "exit" ELSE "check_size"
    /\ UNCHANGED <<fb, fb_lock, dims, chunks, tile_state, chunk_results, reordered,
                   nworkers, merge_next, writes, panic>>
    /\ UNCHANGED <<tb, prev, debug_mode, buffer, gradients, screen, cursor, composed,
                   started, rendered>>
    /\ UNCHANGED apiVars

\* Lines 100-118: the size of the terminal; the resize branch.
MainCheckSize ==
    /\ pc = "check_size"
    /\ fb_lock = "free"
    /\ \E size \in Sizes :
          IF size # prev
          THEN /\ tb' = TbResize(tb, size[1], size[2])
               /\ fb' = FramebufferNew(size[1], size[2])
               /\ prev' = size
               /\ pc' = "resized"
          ELSE /\ pc' = "size_ok"
               /\ UNCHANGED <<tb, fb, prev>>
    /\ UNCHANGED <<fb_lock, total_time, dims, chunks, tile_state, chunk_results, reordered,
                   nworkers, merge_next, writes, panic>>
    /\ UNCHANGED <<paused, debug_mode, buffer, gradients, screen, cursor, composed,
                   iterations, started, rendered>>
    /\ UNCHANGED apiVars

\* Line 120: if !paused.
MainFrame ==
    /\ pc \in {"resized", "size_ok"}
    /\ IF paused
       THEN /\ pc' = "sleep"
            /\ UNCHANGED started
       ELSE /\ pc' = "fb_clear"
            /\ started' = started + 1
    /\ UNCHANGED <<fb, fb_lock, total_time, dims, chunks, tile_state, chunk_results,
                   reordered, nworkers, merge_next, writes, panic>>
    /\ UNCHANGED <<tb, prev, paused, debug_mode, buffer, gradients, screen, cursor,
                   composed, iterations, rendered>>
    /\ UNCHANGED apiVars

\* Lines 121-124.
FrameClear ==
    /\ pc = "fb_clear"
    /\ fb_lock = "free"
    /\ fb' = FbClear(fb)
    /\ pc' = "update"
    /\ UNCHANGED <<fb_lock, total_time, dims, chunks, tile_state, chunk_results,
                   reordered, nworkers, merge_next, writes, panic>>
    /\ UNCHANGED mainVars
    /\ UNCHANGED apiVars

\* update, lines 138-146, up to the call of draw_test_scene.
MainUpdate ==
    /\ pc = "update"
    /\ fb_lock = "free"
    /\ pc' = "dts_enter"
    /\ UNCHANGED <<fb, fb_lock, total_time, dims, chunks, tile_state, chunk_results,
                   reordered, nworkers, merge_next, writes, panic>>
    /\ UNCHANGED mainVars
    /\ UNCHANGED apiVars

\* What an action of draw leaves alone besides fb, pc and mainVars.
drawFrame == <<total_time, dims, chunks, tile_state, chunk_results, reordered,
               nworkers, merge_next, writes, op, nops, post, call>>

\* Line 239: draw locks the framebuffer for its whole body.
DrawEnter ==
    /\ pc = "dts_done"
    /\ fb_lock = "free"
    /\ fb_lock' = "main"
    /\ pc' = DrawStages[1]
    /\ UNCHANGED <<fb, panic, step_divisor>>
    /\ UNCHANGED mainVars
    /\ UNCHANGED drawFrame

\* A call on the locked framebuffer that returns at once to the next one.
FbStage(stage, f) ==
    /\ pc = stage
    /\ fb' = f
    /\ pc' = StageAfter(stage)
    /\ UNCHANGED <<fb_lock, panic>>
    /\ UNCHANGED mainVars
    /\ UNCHANGED drawFrame

DrawBrightness ==
    /\ FbStage("brightness", compute_brightness_buffer(fb, POSTERIZE_LEVELS))
    /\ step_divisor' = StepDivisor(POSTERIZE_LEVELS)

DrawBrighten ==
    /\ FbStage("brighten", increase_brightness(fb, BRIGHTNESS_FACTOR))
    /\ UNCHANGED step_divisor

DrawContrast ==
    /\ FbStage("contrast", increase_contrast(fb, CONTRAST_FACTOR))
    /\ UNCHANGED step_divisor

DrawSharpen ==
    /\ FbStage("sharpen", apply_sharpening(fb, SHARPENING_FACTOR))
    /\ UNCHANGED step_divisor

DrawDither ==
    /\ FbStage("dither", apply_bayer_dithering(fb))
    /\ UNCHANGED step_divisor

\* What an action of draw after the framebuffer calls leaves alone.
composeFrame == <<fb, fb_lock, step_divisor, prev, paused, debug_mode, iterations, started>>

\* compute_gradients, lines 14-37.
DrawSobel ==
    /\ pc = "sobel"
    /\ gradients' = sobel_gradients(fb)
    /\ pc' = StageAfter("sobel")
    /\ UNCHANGED <<tb, buffer, screen, cursor, composed, rendered, panic>>
    /\ UNCHANGED composeFrame
    /\ UNCHANGED drawFrame

\* compute_gradients, line 40.
DrawNms ==
    /\ pc = "nms"
    /\ gradients' = apply_non_maximum_suppression(gradients, fb.width, fb.height)
    /\ pc' = StageAfter("nms")
    /\ UNCHANGED <<tb, buffer, screen, cursor, composed, rendered, panic>>
    /\ UNCHANGED composeFrame
    /\ UNCHANGED drawFrame

\* draw_colored_frame, lines 72-77.
DcfClear ==
    /\ pc = "dcf_clear"
    /\ tb' = TbClear(tb)
    /\ cursor' = 0
    /\ composed' = {}
    /\ pc' = StageAfter("dcf_clear")
    /\ UNCHANGED <<gradients, buffer, screen, rendered, panic>>
    /\ UNCHANGED composeFrame
    /\ UNCHANGED drawFrame

\* An index or a division of lines 81-98 panics for the cell (x, y).
ComposePanics(x, y) ==
    \/ ~InBounds(gradients, y * fb.width + x + 1)
    \/ ~InBounds(fb.brightness_buffer, CellIndex(fb, x, y))
    \/ ~InBounds(fb.data, CellIndex(fb, x, y))
    \/ IsEdge(gradients[y * fb.width + x + 1]) /\ AverageDivisor(fb, x, y) = 0
    \/ SetCharWrites(tb, x, y) /\ ~InBounds(tb.back_buffer, y * tb.width + x + 1)

\* One turn of the loops of lines 79-100, for the cell at the cursor.
DcfCell ==
    /\ pc = "dcf_cells"
    /\ cursor < fb.width * fb.height
    /\ LET x == cursor % fb.width
           y == cursor \div fb.width
       IN  IF ComposePanics(x, y)
           THEN /\ panic' = TRUE
                /\ pc' = "panicked"
                /\ UNCHANGED <<tb, cursor, composed>>
           ELSE /\ LET cell == ComposeCell(fb, gradients, x, y)
                   IN  tb' = set_char(tb, x, y, cell.ch, cell.pair)
                /\ composed' = IF SetCharWrites(tb, x, y)
                               THEN composed \cup {y * tb.width + x + 1}
                               ELSE composed
                /\ cursor' = cursor + 1
                /\ pc' = IF cursor' = fb.width * fb.height
                         THEN StageAfter("dcf_cells")
                         ELSE pc
                /\ UNCHANGED panic
    /\ UNCHANGED <<gradients, buffer, screen, rendered>>
    /\ UNCHANGED composeFrame
    /\ UNCHANGED drawFrame

\* Line 103.
DcfSwap ==
    /\ pc = "swap"
    /\ tb' = swap_buffers(tb)
    /\ pc' = StageAfter("swap")
    /\ UNCHANGED <<gradients, buffer, screen, cursor, composed, rendered, panic>>
    /\ UNCHANGED composeFrame
    /\ UNCHANGED drawFrame

\* Line 104.
DcfRender ==
    /\ pc = "render"
    /\ IF Len(tb.front_buffer) < tb.width * tb.height
       THEN /\ panic' = TRUE
            /\ pc' = "panicked"
            /\ UNCHANGED <<screen, rendered>>
       ELSE /\ screen' = render(tb)
            /\ rendered' = rendered + 1
            /\ pc' = StageAfter("render")
            /\ UNCHANGED panic
    /\ UNCHANGED <<tb, gradients, buffer, cursor, composed>>
    /\ UNCHANGED composeFrame
    /\ UNCHANGED drawFrame

\* Lines 253-260: buffer[i] is written for every index i of fb.data.
DrawMirror ==
    /\ pc = "mirror"
    /\ IF debug_mode
       THEN IF Len(fb.data) > Len(buffer)
            THEN /\ panic' = TRUE
                 /\ pc' = "panicked"
                 /\ UNCHANGED buffer
            ELSE /\ buffer' = [i \in 1..Len(buffer) |->
                                  IF i <= Len(fb.data) THEN fb.data[i].r * 65536 + fb.data[i].g * 256 + fb.data[i].b ELSE buffer[i]]
                 /\ pc' = StageAfter("mirror")
                 /\ UNCHANGED panic
       ELSE /\ pc' = StageAfter("mirror")
            /\ UNCHANGED <<buffer, panic>>
    /\ UNCHANGED <<tb, gradients, screen, cursor, composed, rendered>>
    /\ UNCHANGED composeFrame
    /\ UNCHANGED drawFrame

\* Line 261: the guard is dropped as draw returns.
DrawReturn ==
    /\ pc = "draw_return"
    /\ fb_lock' = "free"
    /\ pc' = "sleep"
    /\ UNCHANGED <<fb, panic, step_divisor>>
    /\ UNCHANGED mainVars
    /\ UNCHANGED drawFrame

\* Lines 129-132.
MainSleep ==
    /\ pc = "sleep"
    /\ pc' = "loop"
    /\ UNCHANGED <<fb, fb_lock, total_time, dims, chunks, tile_state, chunk_results,
                   reordered, nworkers, merge_next, writes, panic>>
    /\ UNCHANGED mainVars
    /\ UNCHANGED apiVars

(***************************************************************************)
(* Spec: the program from the creation of the framebuffer (line 40), for   *)
(* either size of the terminal, with and without --debug.                  *)
(***************************************************************************)
Init ==
    /\ \E size \in Sizes : fb = FramebufferNew(size[1], size[2])
    /\ debug_mode \in BOOLEAN
    /\ nworkers \in 1..MaxWorkers
    /\ pc = "start"
    /\ fb_lock = "free"
    /\ total_time = 0
    /\ dims = <<0, 0>>
    /\ chunks = <<>>
    /\ tile_state = <<>>
    /\ chunk_results = <<>>
    /\ reordered = FALSE
    /\ merge_next = 1
    /\ writes = <<>>
    /\ panic = FALSE
    /\ op = NoOp
    /\ nops = 0
    /\ step_divisor = -1
    /\ post = NoPost
    /\ call = NoCall
    /\ tb = TerminalBufferNew(0, 0)
    /\ prev = <<0, 0>>
    /\ paused = FALSE
    /\ buffer = <<>>
    /\ gradients = <<>>
    /\ screen = <<>>
    /\ cursor = 0
    /\ composed = {}
    /\ iterations = 0
    /\ started = 0
    /\ rendered = 0

Next ==
    \/ MainStartup
    \/ MainInput
    \/ MainCheckSize
    \/ MainFrame
    \/ FrameClear
    \/ MainUpdate
    \/ SceneEnter
    \/ SceneFork
    \/ TileStart
    \/ TileFinish
    \/ SceneJoin
    \/ SceneMergeChunk
    \/ SceneReturn
    \/ DrawEnter
    \/ DrawBrightness
    \/ DrawBrighten
    \/ DrawContrast
    \/ DrawSharpen
    \/ DrawDither
    \/ DrawSobel
    \/ DrawNms
    \/ DcfClear
    \/ DcfCell
    \/ DcfSwap
    \/ DcfRender
    \/ DrawMirror
    \/ DrawReturn
    \/ MainSleep

Spec == Init /\ [][Next]_vars

(***************************************************************************)
(* SpecStages: the stages of the pipeline, each on inputs of its own.      *)
(*                                                                         *)
(*  - closest_color and get_closest_color_pair applied to a colour whose   *)
(*    channels are the cube values, the values up to MaxChannelOffset from *)
(*    them, and the values next to the midpoints of the first and the      *)
(*    middle cube interval;                                                *)
(*  - a SolidSize x SolidSize framebuffer of one colour taken through      *)
(*    compute_brightness_buffer(2), increase_contrast(1.0),                *)
(*    apply_bayer_dithering, compute_gradients and draw_colored_frame;     *)
(*  - apply_sharpening and compute_gradients on a luminance buffer of any  *)
(*    size from 0x0: uniform, a vertical edge (left half 0, right half     *)
(*    255), a ramp 128 + a x + b y of every direction, a product x y c and *)
(*    a scatter, whose rows differ;                                        *)
(*  - apply_bayer_dithering applied twice to one colour buffer after       *)
(*    another; buffer k has the red channel k at its first pixel and the   *)
(*    buffers cover every channel value at every cell of the Bayer matrix. *)
(***************************************************************************)
MaxChannelOffset == 1
SolidSize == 4
MaxGradW == 4
MaxGradH == 4
DitherSize == 2

ChannelSamples ==
    {v \in 0..U8_MAX : \E k \in 0..5 : v - 51 * k <= MaxChannelOffset
                                        /\ 51 * k - v <= MaxChannelOffset}
        \cup {25, 26, 127, 128}

\* get_brightness(x, y) of the sample buffers.
LumaFramebuffer(width, height, pattern) ==
    LET LumaAt(x, y) ==
            IF pattern.kind = "uniform" THEN pattern.v
            ELSE IF pattern.kind = "edge" THEN (IF x < width \div 2 THEN 0 ELSE U8_MAX)
            ELSE IF pattern.kind = "ramp"
            THEN Clamp(128 + pattern.a * x + pattern.b * y, 0, U8_MAX)
            ELSE IF pattern.kind = "product" THEN (pattern.c * x * y) % (U8_MAX + 1)
            ELSE (pattern.c * (x * x + 3 * y + x * y * y + 1)) % (U8_MAX + 1)
    IN  [FramebufferNew(width, height) EXCEPT !.brightness_buffer =
            [i \in 1..(width * height) |-> LumaAt(ColOf(i, width), RowOf(i, width))]]

DitherSample(k) ==
    [FramebufferNew(DitherSize, DitherSize) EXCEPT !.data =
        [i \in 1..(DitherSize * DitherSize) |->
            Pixel((k + 64 * (i - 1)) % (U8_MAX + 1),
                  (7 * k + 13 * i) % (U8_MAX + 1),
                  U8_MAX - k,
                  U8_MAX)]]

InitStages ==
    /\ \/ /\ \E r \in ChannelSamples, g \in ChannelSamples, b \in ChannelSamples :
                call = [name |-> "color", r |-> r, g |-> g, b |-> b]
          /\ fb = FramebufferNew(1, 1)
          /\ pc = "api"
          /\ tb = TerminalBufferNew(0, 0)
          /\ dims = <<0, 0>>
          /\ tile_state = <<>>
          /\ chunk_results = <<>>
       \/ /\ \E r, g, b \in {0, 34, 85, 136, 204, U8_MAX} :
                fb = [FramebufferNew(SolidSize, SolidSize) EXCEPT !.data =
                         [i \in 1..(SolidSize * SolidSize) |-> Pixel(r, g, b, U8_MAX)]]
          /\ call = NoCall
          /\ pc = "solid_brightness"
          /\ tb = TerminalBufferNew(SolidSize, SolidSize)
          /\ dims = <<0, 0>>
          /\ tile_state = <<>>
          /\ chunk_results = <<>>
       \/ /\ \E w \in 0..MaxGradW, h \in 0..MaxGradH,
                f \in {"apply_sharpening", "compute_gradients"},
                pattern \in
                    {[kind |-> "uniform", v |-> v] : v \in {0, 128, U8_MAX}}
                        \cup {[kind |-> "edge"]}
                        \cup {[kind |-> "ramp", a |-> a, b |-> b] :
                                 a \in {-20, -2, 0, 2, 20}, b \in {-20, -2, 0, 2, 20}}
                        \cup {[kind |-> "product", c |-> c] : c \in {23, 57}}
                        \cup {[kind |-> "scatter", c |-> c] : c \in {29, 83}} :
                /\ fb = LumaFramebuffer(w, h, pattern)
                /\ call = [name |-> f, pattern |-> pattern]
                /\ pc = IF f = "apply_sharpening" THEN "sharpen_call" ELSE "grad_sobel"
                /\ dims = <<w, h>>
                /\ tile_state = [y \in 1..h |-> "todo"]
                /\ chunk_results = [y \in 1..h |-> <<>>]
          /\ tb = TerminalBufferNew(0, 0)
       \/ /\ fb = DitherSample(0)
          /\ call = [name |-> "apply_bayer_dithering", sample |-> 0, once |-> <<>>,
                     differing |-> {}]
          /\ pc = "dither_first"
          /\ tb = TerminalBufferNew(0, 0)
          /\ dims = <<0, 0>>
          /\ tile_state = <<>>
          /\ chunk_results = <<>>
    /\ op = NoOp
    /\ nops = 0
    /\ step_divisor = -1
    /\ post = NoPost
    /\ fb_lock = "free"
    /\ total_time = 0
    /\ chunks = <<>>
    /\ reordered = FALSE
    /\ nworkers = 1
    /\ merge_next = 1
    /\ writes = <<>>
    /\ panic = FALSE
    /\ prev = <<0, 0>>
    /\ paused = FALSE
    /\ debug_mode = FALSE
    /\ buffer = <<>>
    /\ gradients = <<>>
    /\ screen = <<>>
    /\ cursor = 0
    /\ composed = {}
    /\ iterations = 0
    /\ started = 0
    /\ rendered = 0

CallClosestColor ==
    /\ call.name = "color"
    /\ call' = [name |-> "closest_color", r |-> call.r, g |-> call.g, b |-> call.b,
                result |-> closest_color(call.r, call.g, call.b)]
    /\ UNCHANGED <<fb, op, nops, step_divisor, post>>
    /\ UNCHANGED <<sceneVars, mainVars>>

CallColorPair ==
    /\ call.name = "color"
    /\ call' = [name |-> "get_closest_color_pair", r |-> call.r, g |-> call.g, b |-> call.b,
                result |-> get_closest_color_pair(call.r, call.g, call.b)]
    /\ UNCHANGED <<fb, op, nops, step_divisor, post>>
    /\ UNCHANGED <<sceneVars, mainVars>>

\* The next call of the solid-colour pipeline; the last one is
\* draw_colored_frame, lines 77-104: clear, every cell, swap_buffers, render.
SolidStage ==
    /\ pc \in {"solid_brightness", "solid_contrast", "solid_dither", "solid_gradients",
               "solid_compose"}
    /\ fb' = CASE pc = "solid_brightness" -> compute_brightness_buffer(fb, 2)
               [] pc = "solid_contrast" -> increase_contrast(fb, <<1, 1>>)
               [] pc = "solid_dither" -> apply_bayer_dithering(fb)
               [] OTHER -> fb
    /\ step_divisor' = IF pc = "solid_brightness" THEN StepDivisor(2) ELSE step_divisor
    /\ gradients' = IF pc = "solid_gradients" THEN compute_gradients(fb) ELSE gradients
    /\ tb' = IF pc = "solid_compose"
             THEN swap_buffers([tb EXCEPT !.back_buffer = [i \in 1..(fb.width * fb.height) |->
                      ComposeCell(fb, gradients, ColOf(i, fb.width), RowOf(i, fb.width))]])
             ELSE tb
    /\ screen' = IF pc = "solid_compose" THEN render(tb') ELSE screen
    /\ pc' = CASE pc = "solid_brightness" -> "solid_contrast"
               [] pc = "solid_contrast" -> "solid_dither"
               [] pc = "solid_dither" -> "solid_gradients"
               [] pc = "solid_gradients" -> "solid_compose"
               [] OTHER -> "solid_done"
    /\ UNCHANGED <<fb_lock, total_time, dims, chunks, tile_state, chunk_results, reordered,
                   nworkers, merge_next, writes, panic, op, nops, post, call,
                   prev, paused, debug_mode, buffer, cursor, composed, iterations,
                   started, rendered>>

\* A variant: the rows are collected as they complete.
RowSlotByCompletion(y, completed) == completed + 1

\* collect(): the row y is element y of the result whenever it completes.
RowSlot(y, completed) == y + 1

\* sobel.rs lines 14-35 and 43-73: both passes of compute_gradients are
\* parallel maps over the rows (into_par_iter, flat_map); one row of the
\* running pass completes.
GradRow ==
    /\ pc \in {"grad_sobel", "grad_nms"}
    /\ \E y \in 0..(dims[2] - 1) :
          /\ tile_state[y + 1] = "todo"
          /\ tile_state' = [tile_state EXCEPT ![y + 1] = "done"]
          /\ reordered' = (reordered \/ \E j \in 1..y : tile_state[j] # "done")
          /\ chunk_results' = [chunk_results EXCEPT ![RowSlot(y, Completed)] =
                IF pc = "grad_sobel"
                THEN [k \in 1..dims[1] |-> SobelAt(fb, k - 1, y)]
                ELSE [k \in 1..dims[1] |-> SuppressAt(gradients, k - 1, y, dims[1], dims[2])]]
    /\ UNCHANGED <<pc, gradients, fb, fb_lock, total_time, dims, chunks, nworkers,
                   merge_next, writes, panic, op, nops, step_divisor, post, call, tb, prev,
                   paused, debug_mode, buffer, screen, cursor, composed, iterations,
                   started, rendered>>

\* Lines 37-40 and 75: collect() returns the rows, flattened in row order;
\* after the first pass apply_non_maximum_suppression is called.
GradCollect ==
    /\ pc \in {"grad_sobel", "grad_nms"}
    /\ AllTiles("done")
    /\ gradients' = [i \in 1..(dims[1] * dims[2]) |->
                        chunk_results[RowOf(i, dims[1]) + 1][ColOf(i, dims[1]) + 1]]
    /\ IF pc = "grad_sobel"
       THEN /\ tile_state' = [y \in 1..dims[2] |-> "todo"]
            /\ chunk_results' = [y \in 1..dims[2] |-> <<>>]
            /\ pc' = "grad_nms"
       ELSE /\ pc' = "grad_done"
            /\ UNCHANGED <<tile_state, chunk_results>>
    /\ UNCHANGED <<reordered, fb, fb_lock, total_time, dims, chunks, nworkers,
                   merge_next, writes, panic, op, nops, step_divisor, post, call, tb, prev,
                   paused, debug_mode, buffer, screen, cursor, composed, iterations,
                   started, rendered>>

(***************************************************************************)
(* apply_sharpening with height 0, or with width 0 and height >= 3: a      *)
(* bound height - 1 or width - 1 of the loops underflows.  The call panics *)
(* on the subtraction when overflow checks are on, and otherwise on the    *)
(* first index into the empty buffer, except that with height 0 and width  *)
(* 1 or 2 the inner range is empty and the loops write nothing.            *)
(***************************************************************************)
SharpenUnderflows(f) == f.height = 0 \/ (f.height >= 3 /\ f.width = 0)

\* Lines 149-150 with overflow checks: the subtraction panics.
SharpenPanic ==
    /\ pc = "sharpen_call"
    /\ SharpenUnderflows(fb)
    /\ panic' = TRUE
    /\ pc' = "panicked"
    /\ UNCHANGED <<fb, op>>
    /\ UNCHANGED <<fb_lock, total_time, dims, chunks, tile_state, chunk_results, reordered,
                   nworkers, merge_next, writes, nops, step_divisor, post, call>>
    /\ UNCHANGED mainVars

\* Lines 146-163 when no bound underflows, or with wrapping bounds.
SharpenCall ==
    /\ pc = "sharpen_call"
    /\ \E factor \in {SHARPENING_FACTOR, <<1, 1>>, <<1, 2>>} :
          /\ op' = [name |-> "apply_sharpening", factor |-> factor]
          /\ IF SharpenUnderflows(fb) /\ ~(fb.height = 0 /\ fb.width \in {1, 2})
             THEN /\ panic' = TRUE
                  /\ pc' = "panicked"
                  /\ UNCHANGED fb
             ELSE /\ fb' = IF SharpenUnderflows(fb) THEN fb ELSE apply_sharpening(fb, factor)
                  /\ pc' = "sharpen_done"
                  /\ UNCHANGED panic
    /\ UNCHANGED <<fb_lock, total_time, dims, chunks, tile_state, chunk_results, reordered,
                   nworkers, merge_next, writes, nops, step_divisor, post, call>>
    /\ UNCHANGED mainVars

\* One call of apply_bayer_dithering.  call.once is the colour buffer after
\* the first call and call.differing the buffers so far that the second
\* call changed.
DitherPass ==
    /\ pc \in {"dither_first", "dither_second"}
    /\ fb' = apply_bayer_dithering(fb)
    /\ call' = IF pc = "dither_first"
               THEN [call EXCEPT !.once = fb'.data]
               ELSE [call EXCEPT !.differing =
                        IF fb'.data # call.once THEN @ \cup {call.sample} ELSE @]
    /\ pc' = IF pc = "dither_first" THEN "dither_second" ELSE "dither_twice"
    /\ UNCHANGED <<fb_lock, total_time, dims, chunks, tile_state, chunk_results, reordered,
                   nworkers, merge_next, writes, panic, op, nops, step_divisor, post>>
    /\ UNCHANGED mainVars

\* The next colour buffer.
DitherNextSample ==
    /\ pc = "dither_twice"
    /\ call.sample < U8_MAX
    /\ fb' = DitherSample(call.sample + 1)
    /\ call' = [call EXCEPT !.sample = @ + 1, !.once = <<>>]
    /\ pc' = "dither_first"
    /\ UNCHANGED <<fb_lock, total_time, dims, chunks, tile_state, chunk_results, reordered,
                   nworkers, merge_next, writes, panic, op, nops, step_divisor, post>>
    /\ UNCHANGED mainVars

NextStages ==
    \/ CallClosestColor
    \/ CallColorPair
    \/ SolidStage
    \/ GradRow
    \/ GradCollect
    \/ SharpenPanic
    \/ SharpenCall
    \/ DitherPass
    \/ DitherNextSample

SpecStages == InitStages /\ [][NextStages]_vars

(***************************************************************************)
(* raymarch.rs.  SpecMarch: one call of ray_march.  Distances are in       *)
(* thousandths (epsilon = 0.001 is 1).  The call is the one of             *)
(* draw_test_scene: the origin is the fixed eye and the direction a unit   *)
(* vector, so every point and distance is finite.  scene_sdf is any        *)
(* function of the point, so each evaluation yields any of the sample      *)
(* distances: one below epsilon, one small step and one large step (half   *)
(* of max_dist in the main loop, the distance to the light, 20.0, in       *)
(* soft_shadow).  call.evals counts the evaluations of scene_sdf made by   *)
(* the main loop, by calculate_normal and by soft_shadow.  No code panics  *)
(* while it holds GLOBALS (update_globals only assigns), so the mutex is   *)
(* never poisoned and lock().unwrap() of line 31 returns.                  *)
(***************************************************************************)
max_steps == 200
max_dist == 2000000
epsilon == 1
SHADOW_STEPS == 100
SHADOW_START == 10
NORMAL_EVALS == 6

\* Lines 75-78 and vec3_to_pixel: lerp of (0.5, 0.7, 1.0) towards white by
\* t = 0.5 (direction.y + 1), clamped, scaled by 255 and cast to u8; dy is
\* direction.y in quarters.
SkyPixel(dy) ==
    Pixel((U8_MAX * (12 + dy)) \div 16, (U8_MAX * (68 + 3 * dy)) \div 80, U8_MAX, U8_MAX)

InitMarch ==
    /\ \E dy \in {-3, 0, 1, 3} :
          call = [name |-> "ray_march", direction_y |-> dy, step |-> 0, t |-> 0,
                  d |-> 0, threshold |-> epsilon,
                  evals |-> [march |-> 0, normal |-> 0, shadow |-> 0],
                  outcome |-> "none", result |-> DefaultPixel]
    /\ pc = "march_loop"
    /\ fb = FramebufferNew(0, 0)
    /\ op = NoOp
    /\ nops = 0
    /\ step_divisor = -1
    /\ post = NoPost
    /\ fb_lock = "free"
    /\ total_time = 0
    /\ dims = <<0, 0>>
    /\ chunks = <<>>
    /\ tile_state = <<>>
    /\ chunk_results = <<>>
    /\ reordered = FALSE
    /\ nworkers = 1
    /\ merge_next = 1
    /\ writes = <<>>
    /\ panic = FALSE
    /\ MainIdle

\* A variant: one more turn of the loop.
MarchBudgetLeftInclusive(step) == step <= max_steps

\* Line 54: for _ in 0..max_steps.
MarchBudgetLeft(step) == step < max_steps

\* Lines 54-72: one turn of the main loop.  A hit goes on to
\* calculate_normal (146-153) and enters soft_shadow (157-160); otherwise
\* the loop is left when t > max_dist or when the range is exhausted.
\* call.d is the distance scene_sdf returned at origin + direction * t
\* (line 56) and call.threshold the value it is compared with (line 57:
\* the local epsilon of line 51, assigned once before the loop).
MarchStep ==
    /\ pc = "march_loop"
    /\ MarchBudgetLeft(call.step)
    /\ \E d \in {0, epsilon, max_dist \div 2} :
          IF d < epsilon
          THEN /\ call' = [call EXCEPT !.evals.march = @ + 1,
                                       !.evals.normal = @ + NORMAL_EVALS,
                                       !.d = d, !.threshold = epsilon,
                                       !.step = 0, !.t = SHADOW_START]
               /\ pc' = "shadow_loop"
          ELSE /\ call' = [call EXCEPT !.evals.march = @ + 1, !.step = @ + 1,
                                       !.d = d, !.threshold = epsilon, !.t = @ + d]
               /\ pc' = IF call.t + d > max_dist \/ ~MarchBudgetLeft(call.step + 1)
                        THEN "march_miss"
                        ELSE "march_loop"
    /\ UNCHANGED <<fb, fb_lock, total_time, dims, chunks, tile_state, chunk_results,
                   reordered, nworkers, merge_next, writes, panic, op, nops, step_divisor,
                   post>>
    /\ UNCHANGED mainVars

\* Lines 162-177: one turn of the loop of soft_shadow, which is left at an
\* occluder, when t > max_dist (the distance to the light, 20.0) or when
\* the range 0..100 is exhausted.
ShadowStep ==
    /\ pc = "shadow_loop"
    /\ \E dist \in {0, epsilon, 20000} :
          IF dist < epsilon
          THEN /\ call' = [call EXCEPT !.evals.shadow = @ + 1]
               /\ pc' = "march_shade"
          ELSE /\ call' = [call EXCEPT !.evals.shadow = @ + 1, !.step = @ + 1, !.t = @ + dist]
               /\ pc' = IF call.t + dist > 20000 \/ call.step + 1 >= SHADOW_STEPS
                        THEN "march_shade"
                        ELSE "shadow_loop"
    /\ UNCHANGED <<fb, fb_lock, total_time, dims, chunks, tile_state, chunk_results,
                   reordered, nworkers, merge_next, writes, panic, op, nops, step_divisor,
                   post>>
    /\ UNCHANGED mainVars

\* Lines 64-66: shade and vec3_to_pixel; the hit returns a pixel.
MarchShade ==
    /\ pc = "march_shade"
    /\ \E p \in {Pixel(0, 0, 0, U8_MAX), Pixel(25, 127, U8_MAX, U8_MAX)} :
          call' = [call EXCEPT !.outcome = "hit", !.result = p, !.step = 0, !.t = 0]
    /\ pc' = "march_returned"
    /\ UNCHANGED <<fb, fb_lock, total_time, dims, chunks, tile_state, chunk_results,
                   reordered, nworkers, merge_next, writes, panic, op, nops, step_divisor,
                   post>>
    /\ UNCHANGED mainVars

\* Lines 75-78: the miss returns the sky colour.
MarchSky ==
    /\ pc = "march_miss"
    /\ call' = [call EXCEPT !.outcome = "miss", !.result = SkyPixel(call.direction_y),
                            !.step = 0, !.t = 0]
    /\ pc' = "march_returned"
    /\ UNCHANGED <<fb, fb_lock, total_time, dims, chunks, tile_state, chunk_results,
                   reordered, nworkers, merge_next, writes, panic, op, nops, step_divisor,
                   post>>
    /\ UNCHANGED mainVars

NextMarch ==
    \/ MarchStep
    \/ ShadowStep
    \/ MarchShade
    \/ MarchSky

\* ray_march is sequential code: its next step is always taken.
SpecMarch == InitMarch /\ [][NextMarch]_vars /\ WF_vars(NextMarch)

(***************************************************************************)
(* C1.  draw_test_scene is deterministic with respect to scheduling: when  *)
(* it returns, the color buffer is the one a single worker taking the      *)
(* chunks in order produces, whatever the interleaving of the workers, the *)
(* order in which the tiles complete and the size of the pool.             *)
(***************************************************************************)
RECURSIVE RenderFrom(_, _, _, _, _, _)
RenderFrom(data, cs, c, width, height, time) ==
    IF c > Len(cs) THEN data
    ELSE RenderFrom(MergedData(data, MergeTargets(cs[c], width, height),
                               ChunkPixels(cs[c], width, height, time)),
                    cs, c + 1, width, height, time)

SequentialRender(width, height, time) ==
    RenderFrom([i \in 1..(width * height) |-> DefaultPixel],
               Chunks(width, height), 1, width, height, time)

C1_SchedulingDeterminism ==
    pc = "dts_done" => fb.data = SequentialRender(fb.width, fb.height, total_time)

C1_Witness ==
    /\ pc = "dts_done"
    /\ nworkers = 2
    /\ Len(chunks) >= 4
    /\ reordered
    /\ fb.data = SequentialRender(fb.width, fb.height, total_time)

(***************************************************************************)
(* C2.  The framebuffer is written only by the merge: every step that      *)
(* changes a framebuffer cell (or counts a set_pixel) is taken after every *)
(* tile closure has returned and with the framebuffer mutex held by the    *)
(* coordinating thread; a step of a worker leaves the framebuffer as it    *)
(* was, and no worker runs while the mutex is held.                        *)
(***************************************************************************)
FramebufferWritten ==
    \/ fb' # fb
    \/ Len(writes') = Len(writes) /\ writes' # writes

C2_MergeAfterJoinUnderLock ==
    /\ [][FramebufferWritten =>
            /\ fb_lock = "main"
            /\ AllTiles("done")
            /\ Completed = Len(chunks)]_vars
    /\ [][tile_state' # tile_state /\ tile_state # <<>> => fb' = fb]_vars
    /\ [](Running # {} => fb_lock = "free")

C2_Witness ==
    /\ pc = "dts_merge"
    /\ fb_lock = "main"
    /\ nworkers = 2
    /\ Len(chunks) >= 4
    /\ merge_next = 3
    /\ \E i \in 1..Len(writes) : writes[i] = 1
    /\ \E i \in 1..Len(writes) : writes[i] = 0

(***************************************************************************)
(* C3.  The tiles partition the grid: every pixel lies in exactly one      *)
(* clipped tile; when draw_test_scene returns every cell has been written  *)
(* exactly once, with the color computed for its own (x, y); and no index  *)
(* ever falls outside a buffer.                                            *)
(***************************************************************************)
TilesHolding(x, y) ==
    {c \in 1..Len(chunks) :
        /\ chunks[c][1] <= x /\ x < chunks[c][1] + TileExtent(chunks[c][1], dims[1])
        /\ chunks[c][2] <= y /\ y < chunks[c][2] + TileExtent(chunks[c][2], dims[2])}

C3_TilesPartitionGrid ==
    /\ ~panic
    /\ pc = "dts_done" =>
          /\ \A x \in 0..(fb.width - 1), y \in 0..(fb.height - 1) :
                Cardinality(TilesHolding(x, y)) = 1
          /\ Len(writes) = fb.width * fb.height
          /\ \A i \in 1..Len(fb.data) :
                /\ writes[i] = 1
                /\ fb.data[i] = PixelColor(ColOf(i, fb.width), RowOf(i, fb.width),
                                           fb.width, fb.height, total_time)

C3_Witness ==
    /\ pc = "dts_done"
    /\ fb.width > 2 * CHUNK_SIZE
    /\ fb.height > CHUNK_SIZE
    /\ Len(chunks) = 6
    /\ \A i \in 1..Len(fb.data) : writes[i] = 1

(***************************************************************************)
(* C4 as stated.  Over the operations of the TerminalBuffer that main      *)
(* performs (clear, set_char, swap_buffers, render, resize): only          *)
(* swap_buffers changes the front buffer; render hands the terminal the    *)
(* front buffer; swap_buffers is called with every cell of the grid        *)
(* written to the back buffer, and what render shows is the composed cell  *)
(* of every position of the grid.                                          *)
(***************************************************************************)
GridCells == 1..(fb.width * fb.height)

FrontChanges == tb'.front_buffer # tb.front_buffer

RenderShowsFront ==
    [][pc = "render" /\ pc' = "mirror" =>
          /\ screen' = tb.front_buffer
          /\ \A i \in GridCells :
                screen'[i] = ComposeCell(fb, gradients, ColOf(i, fb.width), RowOf(i, fb.width))]_vars

SwapAfterAllCells == [][pc = "swap" /\ pc' # pc => composed = GridCells]_vars

AllAre(s, value) == \A i \in 1..Len(s) : s[i] = value

C5_ResizeLeavesDefaults ==
    pc = "resized" =>
        /\ Len(fb.data) = prev[1] * prev[2]
        /\ Len(fb.brightness_buffer) = prev[1] * prev[2]
        /\ Len(fb.z_buffer) = prev[1] * prev[2]
        /\ Len(tb.front_buffer) = prev[1] * prev[2]
        /\ Len(tb.back_buffer) = prev[1] * prev[2]
        /\ AllAre(fb.data, DefaultPixel)
        /\ AllAre(fb.brightness_buffer, 0)
        /\ AllAre(fb.z_buffer, 0)
        /\ AllAre(tb.front_buffer, EmptyCell)
        /\ AllAre(tb.back_buffer, EmptyCell)

(***************************************************************************)
(* C6.  Whatever frames and size changes came before, at every position of *)
(* a frame the buffers the frame indexes have the length of the current    *)
(* grid: the framebuffer arrays and both cell buffers throughout, the      *)
(* gradient field from the moment it is computed, the debug window's array *)
(* when it is filled; and no index is ever out of bounds.                  *)
(***************************************************************************)
FramePositions ==
    {"fb_clear", "update", "dts_enter", "dts_fork", "dts_join", "dts_merge", "dts_done",
     "brightness", "brighten", "contrast", "sharpen", "dither", "sobel", "nms",
     "dcf_clear", "dcf_cells", "swap", "render", "mirror", "draw_return"}

PipelineOrder ==
    <<"fb_clear", "update", "dts_enter", "dts_fork", "dts_join", "dts_merge", "dts_done",
      "brightness", "brighten", "contrast", "sharpen", "dither", "sobel", "nms",
      "dcf_clear", "dcf_cells", "swap", "render", "mirror", "draw_return", "sleep">>

InPipeline(position) == \E k \in 1..(Len(PipelineOrder) - 1) : PipelineOrder[k] = position

NextInPipeline(position) ==
    PipelineOrder[1 + CHOOSE k \in 1..(Len(PipelineOrder) - 1) : PipelineOrder[k] = position]

DrawPositions ==
    {"dts_done", "brightness", "brighten", "contrast", "sharpen", "dither", "sobel", "nms",
     "dcf_clear", "dcf_cells", "swap", "render", "mirror", "draw_return"}

C8_StagesInOrder ==
    /\ [][InPipeline(pc) /\ pc' # pc => pc' \in {NextInPipeline(pc), "panicked"}]_vars
    /\ [][pc' = "fb_clear" /\ pc # "fb_clear" =>
             rendered = started /\ started' = started + 1]_vars
    /\ [][rendered' # rendered => pc = "render" /\ rendered' = started]_vars
    /\ [](Running # {} => pc = "dts_join")
    /\ [](pc \in DrawPositions =>
             /\ AllTiles("done")
             /\ \A i \in 1..Len(fb.data) : writes[i] = 1)
    /\ [](pc \in {"swap", "render"} => composed = GridCells)
    /\ [](pc \in {"loop", "check_size", "resized", "size_ok", "sleep", "exit"} =>
             rendered = started)

C8_Witness ==
    /\ pc = "render"
    /\ started = 2
    /\ rendered = 1
    /\ composed = GridCells
    /\ \E i \in 1..Len(gradients) : IsEdge(gradients[i])

(***************************************************************************)
(* C7.  Framebuffer invariant: the color, luminance and depth arrays all   *)
(* have length width * height after any sequence of operations; an         *)
(* operation on the luminance array leaves the color array unchanged, and  *)
(* an operation that changes the color array computes it from the colors   *)
(* and its arguments alone (the same result with the luminance erased).    *)
(***************************************************************************)
LuminanceOps == {"compute_brightness_buffer", "increase_brightness",
                 "increase_contrast", "apply_sharpening"}

LengthsAgree(f) ==
    /\ Len(f.data) = f.width * f.height
    /\ Len(f.brightness_buffer) = f.width * f.height
    /\ Len(f.z_buffer) = f.width * f.height

WithoutLuminance(f) ==
    [f EXCEPT !.brightness_buffer = [i \in 1..Len(f.brightness_buffer) |-> 0]]

ColorsFromColors(o, f) ==
    CASE o.name = "clear" -> FbClear(WithoutLuminance(f)).data
      [] o.name = "set_pixel" -> set_pixel(WithoutLuminance(f), o.x, o.y, o.pixel).data
      [] o.name = "apply_bayer_dithering" -> apply_bayer_dithering(WithoutLuminance(f)).data
      [] OTHER -> f.data

C7_FramebufferInvariant ==
    /\ [](LengthsAgree(fb))
    /\ [][/\ op'.name \in LuminanceOps => fb'.data = fb.data
          /\ fb'.data = ColorsFromColors(op', fb)]_<<fb, op, nops, step_divisor>>

C7_Witness ==
    /\ nops = MaxFbOps
    /\ op.name = "apply_bayer_dithering"
    /\ fb.width >= 3 /\ fb.height >= 3
    /\ \E i \in 1..Len(fb.brightness_buffer) : fb.brightness_buffer[i] > 0
    /\ \E i \in 1..Len(fb.data) : fb.data[i] # DefaultPixel

(***************************************************************************)
(* C9.  For every levels in 2..=255 and every luma, posterize_brightness   *)
(* yields one of exactly `levels` distinct values, the smallest 0 and the  *)
(* largest 255, and applying it to its own result changes nothing.         *)
(***************************************************************************)
PosterizeOutputs(levels) == {posterize_brightness(b, levels) : b \in 0..U8_MAX}

C9_PosterizeLevelsIdempotent ==
    post.stage = "twice" =>
        /\ post.twice = post.once
        /\ Cardinality(PosterizeOutputs(post.levels)) = post.levels
        /\ \A v \in PosterizeOutputs(post.levels) : 0 <= v /\ v <= U8_MAX
        /\ 0 \in PosterizeOutputs(post.levels)
        /\ U8_MAX \in PosterizeOutputs(post.levels)

(***************************************************************************)
(* C10.  Brightness extraction never evaluates 255 / (levels - 1) with a   *)
(* zero divisor (levels = 1 is rejected or special-cased), so no luminance *)
(* derived from that division is stored.                                   *)
(***************************************************************************)
C10_ZeroDivisorRejected == step_divisor # 0

(***************************************************************************)
(* C11.  closest_color returns, for every colour, a palette entry at the   *)
(* least sum of squared channel differences, the one of lowest index among *)
(* the entries at that distance; for a colour of the cube it returns that  *)
(* colour.                                                                 *)
(***************************************************************************)
PaletteIndices == 0..(PALETTE_SIZE - 1)

C11_ClosestColorMinimal ==
    call.name = "closest_color" =>
        \E i \in PaletteIndices :
            /\ call.result = PaletteColor(i)
            /\ \A j \in PaletteIndices :
                  /\ SqDist(call.r, call.g, call.b, PaletteColor(i))
                        <= SqDist(call.r, call.g, call.b, PaletteColor(j))
                  /\ SqDist(call.r, call.g, call.b, PaletteColor(i))
                        = SqDist(call.r, call.g, call.b, PaletteColor(j)) => i <= j
            /\ (\E j \in PaletteIndices : PaletteColor(j) = <<call.r, call.g, call.b>>)
                  => call.result = <<call.r, call.g, call.b>>

C11_Witness ==
    /\ call.name = "closest_color"
    /\ <<call.r, call.g, call.b>> = <<26, 128, 255>>
    /\ call.result = <<51, 153, 255>>

(***************************************************************************)
(* C12.  A framebuffer of one solid colour taken through brightness        *)
(* extraction with 2 levels, contrast 1.0, dithering, the gradients and    *)
(* the composition yields a front buffer whose cells are all equal.        *)
(***************************************************************************)
C12_SolidColorUniformCells ==
    pc = "solid_done" =>
        \A i, j \in 1..Len(tb.front_buffer) : tb.front_buffer[i] = tb.front_buffer[j]

(***************************************************************************)
(* C13.  For the vertical edge (width >= 4, height >= 3): before           *)
(* suppression every interior row has its greatest magnitude at the        *)
(* boundary, non-zero and with angle 0; after suppression exactly one      *)
(* column of every interior row has a non-zero magnitude.                  *)
(***************************************************************************)
GradAt(x, y) == gradients[y * dims[1] + x + 1]
InteriorCols == 1..(dims[1] - 2)
InteriorRows == 1..(dims[2] - 2)
EdgeCase == call.name = "compute_gradients" /\ call.pattern.kind = "edge"
               /\ dims[1] >= 4 /\ dims[2] >= 3
BoundaryCols == {dims[1] \div 2 - 1, dims[1] \div 2} \cap InteriorCols

C13_VerticalEdgeOneColumn ==
    /\ EdgeCase /\ pc = "grad_nms" =>
          \A y \in InteriorRows : \A bx \in BoundaryCols :
              /\ GradAt(bx, y).m2 > 0
              /\ GradAt(bx, y).gy = 0 /\ GradAt(bx, y).gx > 0
              /\ \A x \in InteriorCols : GradAt(x, y).m2 <= GradAt(bx, y).m2
    /\ EdgeCase /\ pc = "grad_done" =>
          \A y \in InteriorRows :
              Cardinality({x \in 0..(dims[1] - 1) : GradAt(x, y).m2 > 0}) = 1

(***************************************************************************)
(* C14.  compute_gradients returns width * height entries, entry           *)
(* y * width + x being the suppressed gradient of pixel (x, y) in whatever *)
(* order the rows were computed; every border pixel has magnitude zero,    *)
(* and every pixel of a uniform buffer has.                                *)
(***************************************************************************)
C14_GradientsBorderUniform ==
    pc = "grad_done" =>
        /\ Len(gradients) = fb.width * fb.height
        /\ \A y \in 0..(fb.height - 1) : \A x \in 0..(fb.width - 1) :
              /\ GradAt(x, y) = SuppressAt(sobel_gradients(fb), x, y, fb.width, fb.height)
              /\ ~Interior(x, y, fb.width, fb.height) => GradAt(x, y).m2 = 0
              /\ call.pattern.kind = "uniform" => GradAt(x, y).m2 = 0

C14_Witness ==
    /\ pc = "grad_done"
    /\ reordered
    /\ call.pattern.kind = "product"
    /\ dims = <<MaxGradW, MaxGradH>>
    /\ \E x \in InteriorCols : GradAt(x, 1).m2 # GradAt(x, 2).m2

(***************************************************************************)
(* C15.  While draw_colored_frame composes the cells, the colour pair of   *)
(* every composed cell is that of the colour the statement gives: for a    *)
(* pixel whose edge magnitude exceeds the threshold the per-channel        *)
(* arithmetic mean (rounded down or up) of the source colours of its 3x3   *)
(* neighbourhood, which lies between the least and the greatest of them;   *)
(* for any other pixel its own source colour.                              *)
(***************************************************************************)
NeighborValues(x, y, c) == {fb.data[i][c] : i \in NeighborCells(fb, x, y)}
NeighborSum(x, y, c) ==
    SetSum(NeighborCells(fb, x, y), [i \in 1..Len(fb.data) |-> fb.data[i][c]])
MeanValues(x, y, c) ==
    LET count == Cardinality(NeighborCells(fb, x, y))
    IN  {v \in 0..U8_MAX :
            /\ \E lo \in NeighborValues(x, y, c) : lo <= v
            /\ \E hi \in NeighborValues(x, y, c) : v <= hi
            /\ count * v > NeighborSum(x, y, c) - count
            /\ count * v < NeighborSum(x, y, c) + count}

C15_EdgeColorIsNeighborMean ==
    pc = "dcf_cells" /\ tb.width = fb.width /\ tb.height = fb.height =>
        \A i \in composed :
            LET x == (i - 1) % fb.width
                y == (i - 1) \div fb.width
                pair == tb.back_buffer[i].pair
            IN  IF IsEdge(gradients[i])
                THEN \E r \in MeanValues(x, y, "r"), g \in MeanValues(x, y, "g"),
                        b \in MeanValues(x, y, "b") : pair = get_closest_color_pair(r, g, b)
                ELSE pair = get_closest_color_pair(fb.data[i].r, fb.data[i].g, fb.data[i].b)

(***************************************************************************)
(* C16.  The colour pair get_closest_color_pair returns is 1 + the index   *)
(* of the cube colour nearest to (r, g, b), the entry closest_color        *)
(* returns, and lies in 1..216.                                            *)
(***************************************************************************)
C16_PairIsNearestColor ==
    call.name = "get_closest_color_pair" =>
        /\ call.result \in 1..COLOR_PAIRS
        /\ call.result = 1 + closest_index(call.r, call.g, call.b)
        /\ PaletteColor(call.result - 1) = closest_color(call.r, call.g, call.b)

(***************************************************************************)
(* C17.  A call of apply_sharpening that returns gives every interior      *)
(* pixel the value current + factor * (current - mean of its four          *)
(* neighbours), clamped to [0, 255] and truncated, where current and the   *)
(* neighbours are the luminance values before the call; every border pixel *)
(* of the luminance buffer and the whole colour buffer are unchanged.      *)
(***************************************************************************)
SharpenedFromSnapshot(before, i, width, factor) ==
    LET sum == before[i - width] + before[i + width] + before[i - 1] + before[i + 1]
        den == 4 * factor[2]
        num == den * before[i] + factor[1] * (4 * before[i] - sum)
    IN  IF num <= 0 THEN 0
        ELSE IF num >= den * U8_MAX THEN U8_MAX
        ELSE CHOOSE v \in 0..U8_MAX : den * v <= num /\ num < den * (v + 1)

C17_SharpenFromSnapshot ==
    [][pc = "sharpen_call" /\ pc' = "sharpen_done" =>
          /\ fb'.data = fb.data
          /\ Len(fb'.brightness_buffer) = Len(fb.brightness_buffer)
          /\ \A i \in 1..Len(fb.brightness_buffer) :
                fb'.brightness_buffer[i] =
                    IF Interior(ColOf(i, fb.width), RowOf(i, fb.width), fb.width, fb.height)
                    THEN SharpenedFromSnapshot(fb.brightness_buffer, i, fb.width, op'.factor)
                    ELSE fb.brightness_buffer[i]]_vars

\* A returned call on a buffer in which a changed pixel has a changed
\* western neighbour, with a border pixel that is not black.
C17_Witness ==
    /\ pc = "sharpen_done"
    /\ op.factor = SHARPENING_FACTOR
    /\ fb.width >= 4 /\ fb.height >= 3
    /\ \E i \in 2..Len(fb.brightness_buffer) :
          LET before == LumaFramebuffer(fb.width, fb.height, call.pattern).brightness_buffer
          IN  /\ Interior(ColOf(i, fb.width), RowOf(i, fb.width), fb.width, fb.height)
              /\ Interior(ColOf(i - 1, fb.width), RowOf(i - 1, fb.width), fb.width, fb.height)
              /\ fb.brightness_buffer[i] # before[i]
              /\ fb.brightness_buffer[i - 1] # before[i - 1]
              /\ \E j \in 1..fb.width : before[j] > 0

(***************************************************************************)
(* C18.  As stated: for some colour buffer, applying apply_bayer_dithering *)
(* twice gives a colour buffer other than the one after applying it once:  *)
(* when every colour buffer has been tried, one of them differed.          *)
(***************************************************************************)
C18_DitherTwiceDiffers ==
    pc = "dither_twice" /\ call.sample = U8_MAX => call.differing # {}

\* C18, amended: apply_bayer_dithering is idempotent; for every colour
\* buffer the second application leaves the colour buffer as the first
\* one made it.
C18_DitherIdempotent == pc = "dither_twice" => fb.data = call.once

\* The second pass has run on a buffer that the first pass changed at a
\* pixel whose dither offset is not zero after truncation.
C18_Witness ==
    /\ pc = "dither_twice"
    /\ call.sample = 34
    /\ fb.data = call.once
    /\ \A i \in 1..Len(fb.data) : fb.data[i] # DitherSample(34).data[i]

(***************************************************************************)
(* C19.  In the suppression the neighbour axis of an interior pixel is the *)
(* same for an angle and for the angle turned by 180 degrees (the gradient *)
(* negated); the pixel keeps its magnitude exactly when it is at least     *)
(* that of both neighbours on that axis of the field before suppression,   *)
(* and gets magnitude 0 otherwise.                                         *)
(***************************************************************************)
AxisOf(g) == NeighborOffset(AngleRange(g.gy, g.gx))
OppositeAxisOf(g) == NeighborOffset(AngleRange(-g.gy, -g.gx))

KeptOnAxis(field, x, y, axis) ==
    LET at(cx, cy) == field[Clamp(cy, 0, dims[2] - 1) * dims[1] + Clamp(cx, 0, dims[1] - 1) + 1]
    IN  /\ at(x, y).m2 >= at(x - axis[1], y - axis[2]).m2
        /\ at(x, y).m2 >= at(x + axis[1], y + axis[2]).m2

C19_AxisModulo180 ==
    /\ pc = "grad_nms" =>
          \A y \in InteriorRows : \A x \in InteriorCols :
              AxisOf(GradAt(x, y)) = OppositeAxisOf(GradAt(x, y))
    /\ pc = "grad_done" =>
          \A y \in InteriorRows : \A x \in InteriorCols :
              LET raw == sobel_gradients(fb)
                  g == raw[y * dims[1] + x + 1]
              IN  GradAt(x, y).m2 = IF KeptOnAxis(raw, x, y, AxisOf(g)) THEN g.m2 ELSE 0

(***************************************************************************)
(* C20.  ray_march terminates and returns a pixel: the main loop makes at  *)
(* most 200 distance evaluations and soft_shadow at most 100 after a hit;  *)
(* without a hit (the step budget used up, or the accumulated distance     *)
(* above the maximum) the call returns the sky colour of the ray           *)
(* direction; no step panics.                                              *)
(***************************************************************************)
IsPixel(p) == p \in [r : 0..U8_MAX, g : 0..U8_MAX, b : 0..U8_MAX, a : {U8_MAX}]

MarchBounded ==
    /\ ~panic
    /\ pc # "panicked"
    /\ call.evals.march <= 200
    /\ call.evals.shadow <= 100
    /\ call.evals.shadow > 0 => call.evals.normal > 0
    /\ pc = "march_miss" => call.evals.normal = 0 /\ call.evals.shadow = 0
    /\ pc = "march_returned" =>
          /\ IsPixel(call.result)
          /\ call.outcome \in {"hit", "miss"}
          /\ call.outcome = "miss" =>
                /\ call.result = SkyPixel(call.direction_y)
                /\ call.evals.normal = 0 /\ call.evals.shadow = 0

C20_RayMarchTerminates == []MarchBounded /\ <>(pc = "march_returned")

\* A hit at the last evaluation of the main loop whose shadow loop used
\* its whole range.
C20_Witness ==
    /\ pc = "march_returned"
    /\ call.outcome = "hit"
    /\ call.evals.march = 200
    /\ call.evals.shadow = 100

(***************************************************************************)
(* C21.  In ray_march a step is a hit exactly when the scene distance at   *)
(* the current point is below the threshold of that step, and the          *)
(* threshold is proportional to the distance t travelled so far: it is 0   *)
(* at t = 0, and the thresholds of two successive evaluations are in the   *)
(* ratio of the distances at which they were made.  The evaluation before  *)
(* the current one was made at t - d, d being the distance it returned.    *)
(***************************************************************************)
C21_HitThresholdProportional ==
    [][pc = "march_loop" /\ call'.evals.march = call.evals.march + 1 =>
          /\ (pc' = "shadow_loop") <=> (call'.d < call'.threshold)
          /\ call.t = 0 => call'.threshold = 0
          /\ call.evals.march >= 1 =>
                call'.threshold * (call.t - call.d) = call.threshold * call.t]_vars

(***************************************************************************)
(* C22.  The main thread never requests the framebuffer mutex while it     *)
(* holds a guard of it: at every position where it is about to lock the    *)
(* framebuffer (the set-up of main, the second argument of Window::new,    *)
(* the resize branch, the clear, update, draw_test_scene before the fork   *)
(* and before the merge, draw) the mutex is free, so the request is        *)
(* granted and the program does not deadlock on itself.                    *)
(***************************************************************************)
C22_NoRelockWhileHeld ==
    pc \in {"start", "window_new", "check_size", "fb_clear", "update",
            "dts_enter", "dts_join", "dts_done"} => fb_lock = "free"

====
